---------------------------- MODULE Spec2Model ----------------------------
(***************************************************************************)
(* A model of parts of the speech rule engine:                             *)
(*   - the Spanish number engine        (ts/l10n/numbers_es.ts)            *)
(*   - simpleOrdinal and the grammar    (ts/l10n/numbers_es.ts)            *)
(*   - the fence matching predicate     (ts/semantic_tree/semantic_attr.ts)*)
(*   - the symbol meaning registry      (ts/semantic_tree/semantic_attr.ts)*)
(*   - the secondary annotations        (ts/semantic_tree/semantic_attr.ts)*)
(*   - the semantic annotator / visitor (src/semantic_tree/                *)
(*                                       semantic_annotator.js)            *)
(*                                                                         *)
(* Representation of JavaScript values:                                    *)
(*   - a word string of the number engine is a TLA+ string;                *)
(*   - the JavaScript value undefined is the string UNDEFINED and a thrown *)
(*     TypeError is the string TYPEERROR (neither is a string the engine   *)
(*     can build);                                                         *)
(*   - a number is the sequence of its base-1000 periods, least            *)
(*     significant first, without leading zero periods: 0 is <<0>>,        *)
(*     21 is <<21>>, 1500 is <<500, 1>>, 10^6 is <<0, 0, 1>>.  N(n) builds *)
(*     it from a TLC integer.  The numbers are IEEE 754 doubles: the      *)
(*     division and the conversions round as JavaScript's do.              *)
(***************************************************************************)
EXTENDS Integers, Sequences, FiniteSets, TLC

VARIABLES
    num,        \* numbers: the argument of the call
    plural,     \* numbers: the plural flag of numberToOrdinal
    mathPow,    \* numbers: the value of Math.pow(10, 36) in this runtime
    gender,     \* numbers: Grammar parameter 'gender'
    callOp,     \* numbers: "idle", or the function that was called
    result,     \* numbers: the value the call returned
    childNodes, \* tree: node -> the sequence of its child nodes
    label,      \* tree: node -> its textual value
    annotation, \* tree: node -> its annotation map (domain -> value)
    fkind,      \* tree: the annotation function of the annotator / visitor
    info0,      \* tree: the info handed to the top-level visit
    stack,      \* tree: the call stack of annotate / visit, top last
    tpc,        \* tree: "visit", "annotate", "done" (or "off")
    calls,      \* tree: history, the applications of func in order
    returned,   \* tree: history, node -> the value visit returned for it
    run,        \* tree: the number of the annotate run (1 or 2)
    snap,       \* tree: history, the annotation maps after the first run
    throwAt,    \* tree: the node at which func throws, 0 when at none
    openArg,    \* fences: the argument open of isMatchingFence
    closeArg,   \* fences: the argument close of isMatchingFence
    matched,    \* fences: <<>>, or <<b>> for the returned boolean b
    matchedBack, \* fences: the same for the call with the arguments swapped
    Meaning,    \* registry: SemanticMap.Meaning, symbol -> meaning
    Secondary,  \* registry: SemanticMap.Secondary, key -> annotation
    rpc,        \* registry: "initMeaning", "ready", "got" (or "off")
    gi,         \* registry: the index i of initMeaning's loop, from 1
    symbol,     \* registry: the symbol of the last Meaning.get
    got,        \* registry: the meaning the last Meaning.get returned
    INTERVALS,  \* registry: Alphabet.INTERVALS, alphabet name -> unicode
    ai,         \* registry: the index of the loop of alphabets, from 1
    secLog,     \* secondary: history, <<kind, char>> -> the value set last
    secArgs,    \* secondary: <<kind, char>> of the last Secondary.get
    secGot,     \* secondary: the value the last Secondary.get returned
    gpc,        \* grammar: "idle", "inCall" of a generation call (or "off")
    genderSet,  \* grammar: history, the gender set last in this call
    prevSet,    \* grammar: history, genderSet of the call before this one
    generations, \* grammar: the number of generation calls begun
    doc,        \* highlighter: the document, [kids, parent] over the nodes
    doc0,       \* highlighter: history, the document before the calls
    infos,      \* highlighter: the infos returned and not yet unhighlighted
    styles,     \* highlighter: the number of mstyle elements created
    hlog,       \* highlighter: history, the nodes highlighted, in order
    hpc         \* highlighter: "highlight", "unhighlight", "threw" ("off")

numberVars == <<num, plural, mathPow, gender, callOp, result>>

treeVars == <<childNodes, label, annotation, fkind, info0, stack, tpc,
              calls, returned, run, snap, throwAt>>

fenceVars == <<openArg, closeArg, matched, matchedBack>>

registryVars == <<Meaning, Secondary, rpc, gi, symbol, got, INTERVALS, ai,
                  secLog, secArgs, secGot>>

grammarVars == <<gpc, genderSet, prevSet, generations>>

highlightVars == <<doc, doc0, infos, styles, hlog, hpc>>

vars == <<num, plural, mathPow, gender, callOp, result, childNodes, label,
          annotation, fkind, info0, stack, tpc, calls, returned, run, snap,
          throwAt,
          openArg, closeArg, matched, matchedBack, Meaning, Secondary, rpc, gi, symbol,
          got, INTERVALS, ai, secLog, secArgs, secGot, gpc, genderSet, prevSet, generations,
          doc, doc0, infos, styles, hlog, hpc>>

\* What the actions of one part leave alone: the variables of the others.
notNumberVars ==
    <<treeVars, fenceVars, registryVars, grammarVars, highlightVars>>

notTreeVars ==
    <<numberVars, fenceVars, registryVars, grammarVars, highlightVars>>

notFenceVars ==
    <<numberVars, treeVars, registryVars, grammarVars, highlightVars>>

notRegistryVars ==
    <<numberVars, treeVars, fenceVars, grammarVars, highlightVars>>

notGrammarVars == <<treeVars, fenceVars, registryVars, highlightVars>>

notHighlightVars ==
    <<numberVars, treeVars, fenceVars, registryVars, grammarVars>>

----------------------------------------------------------------------------
(* JavaScript values.                                                      *)

UNDEFINED == "<undefined>"
TYPEERROR == "<TypeError>"

\* arr[i] of a JavaScript array (0-based); undefined outside the array.
ArrGet(arr, i) == IF i >= 0 /\ i < Len(arr) THEN arr[i + 1] ELSE UNDEFINED

\* Truthiness of a string or undefined.
Truthy(s) == s # UNDEFINED /\ s # ""

\* Array.prototype.join: undefined elements are joined as empty strings.
RECURSIVE Join(_, _)
Join(arr, sep) ==
    IF Len(arr) = 0 THEN ""
    ELSE LET el(x) == IF x = UNDEFINED THEN "" ELSE x
         IN  IF Len(arr) = 1 THEN el(arr[1])
             ELSE el(arr[1]) \o sep \o Join(Tail(arr), sep)

----------------------------------------------------------------------------
(* Numbers.                                                               *)
(*                                                                         *)
(* A JavaScript number is an IEEE 754 double.  The numbers of the model    *)
(* are the non-negative integers that are doubles, each written as the     *)
(* sequence of its base-1000 periods.  Comparison, num % 1000 and          *)
(* subtraction of such numbers are exact in IEEE 754; a division and the   *)
(* conversion of a decimal literal round to the nearest double, ties to    *)
(* the even significand of 53 bits.                                        *)

RECURSIVE N(_)
N(n) == IF n < 1000 THEN <<n>> ELSE <<n % 1000>> \o N(n \div 1000)

IsZero(n) == n = <<0>>

\* The periods of a number without zero periods on top.
RECURSIVE Norm(_)
Norm(n) ==
    IF Len(n) > 1 /\ n[Len(n)] = 0 THEN Norm(SubSeq(n, 1, Len(n) - 1)) ELSE n

\* -1, 0 or 1 as a < b, a = b or a > b.
Cmp(a, b) ==
    IF Len(a) # Len(b) THEN (IF Len(a) < Len(b) THEN -1 ELSE 1)
    ELSE LET d == {i \in 1..Len(a) : a[i] # b[i]}
         IN  IF d = {} THEN 0
             ELSE LET i == CHOOSE x \in d : \A y \in d : y <= x
                  IN  IF a[i] < b[i] THEN -1 ELSE 1

\* num >= k
Geq(a, b) == Cmp(a, b) >= 0

PeriodAt(n, i) == IF i <= Len(n) THEN n[i] ELSE 0

RECURSIVE AddFrom(_, _, _, _)
AddFrom(a, b, i, c) ==
    IF i > Len(a) /\ i > Len(b) THEN (IF c = 0 THEN <<>> ELSE <<c>>)
    ELSE LET t == PeriodAt(a, i) + PeriodAt(b, i) + c
         IN  <<t % 1000>> \o AddFrom(a, b, i + 1, t \div 1000)

Add(a, b) == AddFrom(a, b, 1, 0)

RECURSIVE SubFrom(_, _, _, _)
SubFrom(a, b, i, c) ==
    IF i > Len(a) THEN <<>>
    ELSE LET t == a[i] - PeriodAt(b, i) - c
         IN  <<t % 1000>> \o SubFrom(a, b, i + 1, IF t < 0 THEN 1 ELSE 0)

\* a - b for a >= b
Sub(a, b) == Norm(SubFrom(a, b, 1, 0))

RECURSIVE MulFrom(_, _, _, _)
MulFrom(n, k, i, c) ==
    IF i > Len(n) THEN (IF c = 0 THEN <<>> ELSE N(c))
    ELSE LET t == n[i] * k + c
         IN  <<t % 1000>> \o MulFrom(n, k, i + 1, t \div 1000)

\* n * k for a TLC integer 1 <= k <= 2^20
MulSmall(n, k) == Norm(MulFrom(n, k, 1, 0))

\* The number made of the periods i, i + 1, ... of n, modulo k, for a
\* power of two k <= 1024 (k divides 1000^4).
TopMod(n, i, k) ==
    (PeriodAt(n, i) + PeriodAt(n, i + 1) * (1000 % k)
         + PeriodAt(n, i + 2) * (1000000 % k)
         + PeriodAt(n, i + 3) * (1000000000 % k)) % k

\* Quotient q and remainder r of n by a power of two k <= 1024.
DivSmall(n, k) ==
    [q |-> Norm([i \in 1..Len(n) |->
                    (TopMod(n, i + 1, k) * 1000 + n[i]) \div k]),
     r |-> TopMod(n, 1, k)]

\* n * 2^e
RECURSIVE ShiftLeft(_, _)
ShiftLeft(n, e) ==
    IF e = 0 THEN n
    ELSE IF e >= 20 THEN ShiftLeft(MulSmall(n, 2^20), e - 20)
    ELSE MulSmall(n, 2^e)

Pow2(e) == ShiftLeft(<<1>>, e)

\* Quotient and remainder of n by 2^30; the remainder as the remainders
\* of the three divisions by 1024.
Div2p30(n) ==
    LET d1 == DivSmall(n, 1024)
        d2 == DivSmall(d1.q, 1024)
        d3 == DivSmall(d2.q, 1024)
    IN  [q |-> d3.q, r |-> <<d1.r, d2.r, d3.r>>]

\* q is the floor of n / 2^e; s tells whether a remainder is left.
RECURSIVE ShiftRight(_, _)
ShiftRight(n, e) ==
    IF e = 0 THEN [q |-> n, s |-> FALSE]
    ELSE IF e >= 30
    THEN LET d == Div2p30(n)
             rest == ShiftRight(d.q, e - 30)
         IN  [q |-> rest.q, s |-> rest.s \/ d.r # <<0, 0, 0>>]
    ELSE LET k == IF e >= 10 THEN 10 ELSE e
             d == DivSmall(n, 2^k)
             rest == ShiftRight(d.q, e - k)
         IN  [q |-> rest.q, s |-> rest.s \/ d.r # 0]

\* The number of binary digits of a TLC integer below 2^30.
BitLenInt(v) == CHOOSE b \in 0..30 : v < 2^b /\ (b = 0 \/ 2^(b - 1) <= v)

\* The number of binary digits of n.
RECURSIVE BitLen(_)
BitLen(n) ==
    IF Len(n) >= 5 THEN 30 + BitLen(Div2p30(n).q)
    ELSE IF Len(n) >= 3 THEN 10 + BitLen(DivSmall(n, 1024).q)
    ELSE BitLenInt(PeriodAt(n, 1) + 1000 * PeriodAt(n, 2))

\* Rounding to nearest, ties to even, of a value with floor q : above
\* tells that the value is above q + 1/2, tie that it is q + 1/2.
RoundEven(q, above, tie) ==
    IF above \/ (tie /\ q[1] % 2 = 1) THEN Add(q, <<1>>) ELSE q

\* The Number value of the decimal literal of the integer n: the nearest
\* double.
ToDouble(n) ==
    LET e == BitLen(n) - 53
    IN  IF e <= 0 THEN n
        ELSE LET h == ShiftRight(n, e - 1)
                 d == DivSmall(h.q, 2)
             IN  ShiftLeft(RoundEven(d.q, d.r = 1 /\ h.s, d.r = 1 /\ ~h.s),
                           e)

\* num % 1000 (exact in IEEE 754)
Mod1000(n) == n[1]

\* Math.floor(num / 1000): the quotient is rounded to the nearest double
\* before the floor is taken.  Below 2^53 the floor of the rounded
\* quotient is that of the exact one.
Div1000(n) ==
    IF BitLen(n) <= 53
    THEN (IF Len(n) = 1 THEN <<0>> ELSE Tail(n))
    ELSE LET e == BitLen(Tail(n)) - 53
         IN  IF e >= 0
             THEN LET sh == ShiftRight(n, e)
                      r == sh.q[1]
                  IN  ShiftLeft(RoundEven(Tail(sh.q),
                                    r > 500 \/ (r = 500 /\ sh.s),
                                    r = 500 /\ ~sh.s), e)
             ELSE LET m == ShiftLeft(n, 0 - e)
                  IN  ShiftRight(RoundEven(Tail(m), m[1] > 500, m[1] = 500),
                                 0 - e).q

\* The value of a number below 10^6 as a TLC integer.
Value(n) == IF Len(n) = 1 THEN n[1] ELSE n[1] + 1000 * n[2]

\* Decimal digits of an integer, most significant first.
DigitsOfPeriod(p, pad) ==
    IF pad \/ p >= 100 THEN <<p \div 100, (p \div 10) % 10, p % 10>>
    ELSE IF p >= 10 THEN <<p \div 10, p % 10>>
    ELSE <<p>>

RECURSIVE DigitsFrom(_, _)
DigitsFrom(n, k) ==
    IF k = 0 THEN <<>>
    ELSE DigitsOfPeriod(n[k], k < Len(n)) \o DigitsFrom(n, k - 1)

\* 10^j
Pow10(j) ==
    [i \in 1..(j \div 3) |-> 0]
        \o <<IF j % 3 = 0 THEN 1 ELSE IF j % 3 = 1 THEN 10 ELSE 100>>

\* n modulo 10^j
ModPow10(n, j) ==
    LET a == j \div 3
        p == Pow10(j % 3)[1]
    IN  IF a >= Len(n) THEN n
        ELSE Norm(SubSeq(n, 1, a) \o <<n[a + 1] % p>>)

\* The decimal s * 10^j that Number::toString prints for the double n,
\* sought from exponent j downwards: the multiple of 10^j with the fewest
\* digits s among the decimals that convert to n, the one nearest to n
\* (the even s of two equally near).  The decimals that convert to n lie
\* no more than gl below and gh above n, half the distance to the next
\* double, the ends included when the significand of n is even.
RECURSIVE ShortestFrom(_, _, _, _, _)
ShortestFrom(n, j, gl, gh, even) ==
    LET r == ModPow10(n, j)
        c1 == Sub(n, r)
        up == Sub(Pow10(j), r)
        c2 == Add(c1, Pow10(j))
        ok1 == /\ ~IsZero(c1)
               /\ Cmp(r, gl) < 0 \/ (Cmp(r, gl) = 0 /\ even)
        ok2 == Cmp(up, gh) < 0 \/ (Cmp(up, gh) = 0 /\ even)
        sEven == IF j % 3 = 0 THEN PeriodAt(c1, (j \div 3) + 1) % 2 = 0
                 ELSE (PeriodAt(c1, (j \div 3) + 1) \div Pow10(j % 3)[1])
                          % 2 = 0
    IN  IF ok1 /\ ok2
        THEN (IF Cmp(r, up) < 0 THEN c1
              ELSE IF Cmp(r, up) > 0 THEN c2
              ELSE IF sEven THEN c1 ELSE c2)
        ELSE IF ok1 THEN c1
        ELSE IF ok2 THEN c2
        ELSE ShortestFrom(n, j - 1, gl, gh, even)

\* The integer whose decimal digits Number::toString prints for n: n
\* itself below 2^53, and from there on the shortest decimal that
\* converts to n.
Shortest(n) ==
    LET b == BitLen(n)
        e == b - 53
    IN  IF e <= 0 THEN n
        ELSE LET even == ShiftRight(n, e).q[1] % 2 = 0
                 gh == Pow2(e - 1)
                 gl == IF n # Pow2(b - 1) THEN gh
                       ELSE IF e >= 2 THEN Pow2(e - 2) ELSE <<0>>
             IN  ShortestFrom(n, Len(DigitsFrom(n, Len(n))), gl, gh, even)

\* The digits of num.toString().
Digits(n) == DigitsFrom(Shortest(n), Len(Shortest(n)))

\* The Number value of the literal 1e36,
\* 1000000000000000042420637374017961984.
Number1e36 == ToDouble(Pow10(36))

\* The double below it, 999999999999999894846684784341549056.
Below1e36 == <<56, 549, 341, 784, 684, 846, 894, 999, 999, 999, 999, 999>>

\* Math.pow(10, 36): its value is implementation-approximated.  The
\* runtimes give one of these two doubles (the V8 of node 20 the lower
\* one, the V8 of node 10 and of Chrome the Number value of 1e36).
MathPow10_36 == {Below1e36, Number1e36}

\* num > k for a TLC integer k < 10^6.
Greater(n, k) == Len(n) > 2 \/ Value(n) > k

RECURSIVE DigitString(_)
DigitString(ds) ==
    IF Len(ds) = 0 THEN "" ELSE ToString(ds[1]) \o DigitString(Tail(ds))

RECURSIVE StripZeros(_)
StripZeros(ds) ==
    IF Len(ds) > 1 /\ ds[Len(ds)] = 0
    THEN StripZeros(SubSeq(ds, 1, Len(ds) - 1)) ELSE ds

\* Number.prototype.toString (radix 10) of a non-negative integer: the
\* digits of the shortest decimal that converts to the number, in
\* positional notation below 10^21 and in exponential notation from 10^21
\* on.
toString(n) ==
    LET ds == Digits(n)
        sig == StripZeros(ds)
    IN  IF Len(ds) <= 21 THEN DigitString(ds)
        ELSE DigitString(<<sig[1]>>)
             \o (IF Len(sig) > 1 THEN "." \o DigitString(Tail(sig)) ELSE "")
             \o "e+" \o ToString(Len(ds) - 1)

----------------------------------------------------------------------------
(* ts/l10n/numbers_es.ts: cardinal numbers.                                *)

zero_ == "cero"

onesNumbers_ == <<
    "", "uno", "dos", "tres", "cuatro", "cinco", "seis", "siete", "ocho",
    "nueve", "diez", "once", "doce", "trece", "catorce", "quince",
    "dieciséis", "diecisiete", "dieciocho", "diecinueve", "veinte",
    "veintiuno", "veintidós", "veintitrés", "veinticuatro", "veinticinco",
    "veintiséis", "veintisiete", "veintiocho", "veintinueve" >>

tensNumbers_ == <<
    "", "", "", "treinta", "cuarenta", "cincuenta", "sesenta", "setenta",
    "ochenta", "noventa" >>

hundredsNumbers_ == <<
    "", "cien", "doscientos", "trescientos", "cuatrocientos", "quinientos",
    "seiscientos", "setecientos", "ochocientos", "novecientos" >>

largeNumbers_ == <<
    "",           "mil",
    "millón",     "mil millónes",
    "billón",     "mil billónes",
    "trillón",    "mil trillónes",
    "cuatrilló",  "mil cuatrillóes",
    "quintillón", "mil quintillónes",
    "sextillón",  "mil sextillónes",
    "septillón",  "mil septillónes",
    "octillón",   "mil octillónes",
    "nonillón",   "mil nonillónes",
    "decillón",   "mil decillónes" >>

\* tens && ones ? tens + ' y ' + ones : tens || ones
tensToWords_(n0) ==
    LET n == n0 % 100
    IN  IF n < 30 THEN ArrGet(onesNumbers_, n)
        ELSE LET tens == ArrGet(tensNumbers_, n \div 10)
                 ones == ArrGet(onesNumbers_, n % 10)
             IN  IF Truthy(tens) /\ Truthy(ones) THEN tens \o " y " \o ones
                 ELSE IF Truthy(tens) THEN tens ELSE ones

\* hundredsToWords_ without the branch that creates "ciento".
hundredsToWords_NoCiento(n0) ==
    LET n == n0 % 1000
        hundreds == ArrGet(hundredsNumbers_, n \div 100)
        tens == tensToWords_(n % 100)
    IN  IF Truthy(hundreds) /\ Truthy(tens) THEN hundreds \o " " \o tens
        ELSE IF Truthy(hundreds) THEN hundreds ELSE tens

hundredsToWords_(n0) ==
    LET n == n0 % 1000
        hundred == n \div 100
        hundreds == ArrGet(hundredsNumbers_, hundred)
        tens == tensToWords_(n % 100)
    IN  IF hundred = 1
        THEN IF ~Truthy(tens) THEN hundreds
             ELSE hundreds \o "to" \o " " \o tens      \* creates ciento
        ELSE IF Truthy(hundreds) /\ Truthy(tens) THEN hundreds \o " " \o tens
             ELSE IF Truthy(hundreds) THEN hundreds ELSE tens

\* The character of s at 1-based position i, "" outside s.
CharAt(s, i) == IF i >= 1 /\ i <= Len(s) THEN SubSeq(s, i, i) ELSE ""

\* large.match('/^mil( |$)/'): the argument is a string, so the pattern
\* is that of new RegExp('/^mil( |$)/'): a "/", then at the start of the
\* input "mil", then a space or the end of the input, then a "/".  The
\* "/" found at 1-based position i ends at 0-based offset i, and "^"
\* demands that offset to be 0.
matchMilPattern(s) ==
    \E i \in 1..Len(s) :
        /\ CharAt(s, i) = "/"
        /\ i = 0
        /\ SubSeq(s, i + 1, i + 3) = "mil"
        /\ \/ CharAt(s, i + 4) = " " /\ CharAt(s, i + 5) = "/"
           \/ i + 3 = Len(s) /\ CharAt(s, i + 4) = "/"

\* large.replace(/ón$/, 'ones')
replaceOnSuffix(s) ==
    IF Len(s) >= 2 /\ SubSeq(s, Len(s) - 1, Len(s)) = "ón"
    THEN SubSeq(s, 1, Len(s) - 2) \o "ones" ELSE s

\* The loop of numberToWords: while (num > 0) { ... }.  A method call on
\* an undefined entry of largeNumbers_ throws.
RECURSIVE numberToWordsLoop(_, _, _)
numberToWordsLoop(n, pos, str) ==
    IF IsZero(n) THEN str
    ELSE LET hundreds == Mod1000(n)
             large == ArrGet(largeNumbers_, pos)
             huns == hundredsToWords_(hundreds)
             rest == IF Truthy(str) THEN " " \o str ELSE ""
         IN  IF hundreds = 0
             THEN numberToWordsLoop(Div1000(n), pos + 1, str)
             ELSE IF pos = 0
             THEN numberToWordsLoop(Div1000(n), pos + 1, huns)
             ELSE IF large = UNDEFINED THEN TYPEERROR
             ELSE IF hundreds = 1
             THEN numberToWordsLoop(Div1000(n), pos + 1,
                     (IF matchMilPattern(large) THEN large
                      ELSE "un " \o large) \o rest)
             ELSE numberToWordsLoop(Div1000(n), pos + 1,
                     hundredsToWords_(hundreds) \o " "
                         \o replaceOnSuffix(large) \o rest)

\* pow is the value of Math.pow(10, 36).
numberToWords(n, pow) ==
    IF IsZero(n) THEN zero_
    ELSE IF Geq(n, pow) THEN toString(n)
    ELSE numberToWordsLoop(n, 0, "")

----------------------------------------------------------------------------
(* ts/l10n/numbers_es.ts: ordinal numbers.                                 *)

onesOrdinals_ == <<
    "primera", "segunda", "tercera", "cuarta", "quinta", "sexta", "séptima",
    "octava", "novena", "décima", "undécima", "duodécima" >>

tensOrdinals_ == <<
    "décima", "vigésima", "trigésima", "cuadragésima", "quincuagésima",
    "sexagésima", "septuagésima", "octogésima", "nonagésima" >>

hundredsOrdinals_ == <<
    "centésima", "ducentésima", "tricentésima", "cuadringentésima",
    "quingentésima", "sexcentésima", "septingentésima", "octingentésima",
    "noningentésima" >>

\* numberToOrdinal from "let pos = 0" on, for the remaining num and the
\* result array built so far.
ordinalTail(n, res) ==
    LET pos == n \div 100
        res1 == IF pos > 0 THEN Append(res, ArrGet(hundredsOrdinals_, pos - 1))
                ELSE res
        n1 == IF pos > 0 THEN n % 100 ELSE n
        pos2 == n1 \div 10
        res2 == IF pos2 > 0 THEN Append(res1, ArrGet(tensOrdinals_, pos2 - 1))
                ELSE res1
        n2 == IF pos2 > 0 THEN n1 % 10 ELSE n1
    IN  IF n1 <= 12 THEN Join(Append(res1, ArrGet(onesOrdinals_, n1 - 1)), " ")
        ELSE IF n2 > 0 THEN Join(Append(res2, ArrGet(onesOrdinals_, n2 - 1)), " ")
        ELSE Join(res2, " ")

numberToOrdinal(n, _plural) ==
    IF Greater(n, 1999) THEN toString(n) \o "a"
    ELSE LET v == Value(n)
         IN  IF v <= 12 THEN ArrGet(onesOrdinals_, v - 1)
             ELSE LET res == IF v >= 1000 THEN <<"milésima">> ELSE <<>>
                      v1 == IF v >= 1000 THEN v - 1000 ELSE v
                  IN  IF v1 = 0 THEN Join(res, " ")
                      ELSE ordinalTail(v1, res)

\* Grammar.getInstance().getParameter('gender') is the variable gender.
simpleOrdinal(n, g) ==
    toString(n) \o (IF g = "female" THEN "a" ELSE "o")


----------------------------------------------------------------------------
(* Calls of the number engine.                                             *)

\* Highest scale position (power of 1000) of an argument.
MaxScalePos == 13

PeriodVals == {1, 2, 21, 100, 500, 999}
LowVals == {0, 1, 500}

Zeros(k) == [i \in 1..k |-> 0]

\* The arguments: every number below 1000, the Number values of the
\* decimal literals with a period of PeriodVals at a scale position p, a
\* period of LowVals right below it and zero periods further down, and
\* the double below 1e36.
TestNums ==
    {<<a>> : a \in 0..999}
    \cup {Below1e36}
    \cup {ToDouble(Zeros(p - 1) \o <<lo, hi>>) :
             p \in 1..MaxScalePos, lo \in LowVals, hi \in PeriodVals}

Genders == {"female", "male", UNDEFINED}

\* No generation call is modelled.
GrammarIdle ==
    /\ gpc = "off"
    /\ genderSet = UNDEFINED
    /\ prevSet = UNDEFINED
    /\ generations = 0

NumbersInit ==
    /\ num \in TestNums
    /\ plural \in BOOLEAN
    /\ mathPow \in MathPow10_36
    /\ gender \in Genders
    /\ callOp = "idle"
    /\ result = ""
    /\ GrammarIdle

NumbersIdle ==
    /\ num = <<0>>
    /\ plural = FALSE
    /\ mathPow = Number1e36
    /\ gender = UNDEFINED
    /\ callOp = "off"
    /\ result = ""
    /\ GrammarIdle

CallNumberToWords ==
    /\ callOp = "idle"
    /\ callOp' = "numberToWords"
    /\ result' = numberToWords(num, mathPow)
    /\ UNCHANGED <<num, plural, mathPow, gender>>
    /\ UNCHANGED notNumberVars

CallNumberToOrdinal ==
    /\ callOp = "idle"
    /\ callOp' = "numberToOrdinal"
    /\ result' = numberToOrdinal(num, plural)
    /\ UNCHANGED <<num, plural, mathPow, gender>>
    /\ UNCHANGED notNumberVars

CallSimpleOrdinal ==
    /\ callOp = "idle"
    /\ callOp' = "simpleOrdinal"
    /\ result' = simpleOrdinal(num, gender)
    /\ UNCHANGED <<num, plural, mathPow, gender>>
    /\ UNCHANGED notNumberVars

NumbersNext ==
    \/ CallNumberToWords
    \/ CallNumberToOrdinal
    \/ CallSimpleOrdinal

----------------------------------------------------------------------------
(* simpleOrdinal within top-level generation calls.                        *)
(*                                                                         *)
(* Grammar (../rule_engine/grammar) and the generation call are imported.  *)
(* The grammar context is created for a top-level generation call and      *)
(* dropped when the call returns; its parameter 'gender' is unset until    *)
(* it is set.                                                              *)

\* The number of top-level generation calls.
MaxGenerations == 3

GrammarNums == {<<1>>, <<21>>, <<0, 2>>, Zeros(7) \o <<1>>}

GrammarInit ==
    /\ num = <<0>>
    /\ plural = FALSE
    /\ mathPow = Number1e36
    /\ gender = UNDEFINED
    /\ callOp = "idle"
    /\ result = ""
    /\ gpc = "idle"
    /\ genderSet = UNDEFINED
    /\ prevSet = UNDEFINED
    /\ generations = 0

\* A top-level generation call begins, sharing the context of the call
\* before it.
BeginGeneration_SharedContext ==
    /\ gpc = "idle"
    /\ generations < MaxGenerations
    /\ gpc' = "inCall"
    /\ generations' = generations + 1
    /\ prevSet' = genderSet
    /\ genderSet' = UNDEFINED
    /\ callOp' = "begin"
    /\ UNCHANGED <<gender, num, plural, mathPow, result>>
    /\ UNCHANGED notGrammarVars

\* A top-level generation call begins, with a context of its own.
BeginGeneration ==
    /\ gpc = "idle"
    /\ generations < MaxGenerations
    /\ gpc' = "inCall"
    /\ generations' = generations + 1
    /\ gender' = UNDEFINED
    /\ prevSet' = genderSet
    /\ genderSet' = UNDEFINED
    /\ callOp' = "begin"
    /\ UNCHANGED <<num, plural, mathPow, result>>
    /\ UNCHANGED notGrammarVars

\* Grammar.getInstance().setParameter('gender', g)
SetGender ==
    /\ gpc = "inCall"
    /\ \E g \in {"female", "male"} :
          /\ gender' = g
          /\ genderSet' = g
    /\ callOp' = "setParameter"
    /\ UNCHANGED <<num, plural, mathPow, result, gpc, prevSet, generations>>
    /\ UNCHANGED notGrammarVars

\* simpleOrdinal(n), called during a generation call.
OrdinalInGeneration ==
    /\ gpc = "inCall"
    /\ \E n \in GrammarNums :
          /\ num' = n
          /\ result' = simpleOrdinal(n, gender)
    /\ callOp' = "simpleOrdinal"
    /\ UNCHANGED <<plural, mathPow, gender>>
    /\ UNCHANGED grammarVars
    /\ UNCHANGED notGrammarVars

\* The generation call returns.
EndGeneration ==
    /\ gpc = "inCall"
    /\ gpc' = "idle"
    /\ callOp' = "end"
    /\ UNCHANGED <<num, plural, mathPow, gender, result, genderSet, prevSet,
                   generations>>
    /\ UNCHANGED notGrammarVars

GrammarNext ==
    \/ BeginGeneration
    \/ SetGender
    \/ OrdinalInGeneration
    \/ EndGeneration

----------------------------------------------------------------------------
(* src/semantic_tree/semantic_annotator.js: trees.                         *)

\* Largest number of nodes of a tree.
MaxNodes == 4

\* The parent vectors of the trees with n nodes: node 1 is the root, the
\* parent of node i > 1 is a node below i, and the children of a node are
\* ordered by their number.  Every shape of ordered tree occurs.
ParentVectors(n) == {p \in [2..n -> 1..(n - 1)] : \A i \in 2..n : p[i] < i}

RECURSIVE ChildSeq(_, _, _, _)
ChildSeq(p, n, parent, i) ==
    IF i > n THEN <<>>
    ELSE (IF p[i] = parent THEN <<i>> ELSE <<>>) \o ChildSeq(p, n, parent, i + 1)

TreeOf(p, n) == [parent \in 1..n |-> ChildSeq(p, n, parent, 2)]

Trees == UNION {{TreeOf(p, n) : p \in ParentVectors(n)} : n \in 1..MaxNodes}

Labels == {0, 1}

\* No value: visit has not returned for the node.
NoValue == <<>>

\* addAnnotation adding the value to the one the node carries under the
\* domain.
addAnnotation_Accumulate(m, dom, v) ==
    [d \in DOMAIN m \cup {dom} |->
        IF d # dom THEN m[d] ELSE IF dom \in DOMAIN m THEN m[dom] + v ELSE v]

\* sre.SemanticNode.prototype.addAnnotation(domain, annotation) on the
\* annotation map m of a node: the map holds the value under the domain.
addAnnotation(m, dom, v) ==
    [d \in DOMAIN m \cup {dom} |-> IF d = dom THEN v ELSE m[d]]

Top == stack[Len(stack)]

Pop(st) == SubSeq(st, 1, Len(st) - 1)

ReplaceTop(st, f) == [st EXCEPT ![Len(st)] = f]

TreeIdle ==
    /\ childNodes = <<>>
    /\ label = <<>>
    /\ annotation = <<>>
    /\ fkind = "none"
    /\ info0 = 0
    /\ stack = <<>>
    /\ tpc = "off"
    /\ calls = <<>>
    /\ returned = <<>>
    /\ run = 0
    /\ snap = <<>>
    /\ throwAt = 0

----------------------------------------------------------------------------
(* sre.SemanticVisitor.                                                    *)

VisitorKinds == {"count", "label", "keep"}

\* The visitor functions func(node, info), each returning the pair
\* [annotation, info to propagate]:
\*   count   annotates the node with info and propagates info + 1;
\*   label   annotates with label + info and propagates the label;
\*   keep    annotates with the label and propagates info unchanged.
VisitorFunc(k, n, info) ==
    CASE k = "count" -> <<info, info + 1>>
      [] k = "label" -> <<label[n] + info, label[n]>>
      [] k = "keep"  -> <<label[n], info>>

VisitInit ==
    /\ childNodes \in Trees
    /\ label \in [DOMAIN childNodes -> Labels]
    /\ annotation = [n \in DOMAIN childNodes |-> <<>>]
    /\ fkind \in VisitorKinds
    /\ info0 \in {0, 1}
    /\ stack = <<[node |-> 1, info |-> info0, pc |-> "func", i |-> 0,
                  result |-> NoValue]>>
    /\ tpc = "visit"
    /\ calls = <<>>
    /\ returned = [n \in DOMAIN childNodes |-> NoValue]
    /\ run = 1
    /\ snap = <<>>
    /\ throwAt \in 0..Len(childNodes)

\* var result = this.func(node, info);
\* node.addAnnotation(this.domain, result[0]);
VisitFunc ==
    /\ tpc = "visit"
    /\ Top.pc = "func"
    /\ Top.node # throwAt
    /\ LET f == Top
           res == VisitorFunc(fkind, f.node, f.info)
       IN  /\ stack' = ReplaceTop(stack, [f EXCEPT !.pc = "loop", !.i = 0,
                                                   !.result = res])
           /\ annotation' = [annotation EXCEPT ![f.node] =
                                addAnnotation(@, fkind, res[1])]
           /\ calls' = Append(calls, [node |-> f.node, info |-> f.info,
                                      res |-> res, ok |-> TRUE])
    /\ UNCHANGED <<childNodes, label, fkind, info0, tpc, returned, run, snap,
                   throwAt>>
    /\ UNCHANGED notTreeVars

\* The recursive call handing the child the info the node itself was
\* visited with (this.visit(child, info)).
VisitRecurse_InheritedInfo ==
    /\ tpc = "visit"
    /\ Top.pc = "loop"
    /\ Top.i < Len(childNodes[Top.node])
    /\ stack' = Append(stack, [node |-> childNodes[Top.node][Top.i + 1],
                               info |-> Top.info, pc |-> "func",
                               i |-> 0, result |-> NoValue])
    /\ UNCHANGED <<childNodes, label, annotation, fkind, info0, tpc, calls,
                   returned, run, snap, throwAt>>
    /\ UNCHANGED notTreeVars

\* The loop taking the children from the last to the first.
VisitRecurse_LastChildFirst ==
    /\ tpc = "visit"
    /\ Top.pc = "loop"
    /\ Top.i < Len(childNodes[Top.node])
    /\ stack' = Append(stack,
                    [node |-> childNodes[Top.node]
                                        [Len(childNodes[Top.node]) - Top.i],
                     info |-> Top.result[2], pc |-> "func",
                     i |-> 0, result |-> NoValue])
    /\ UNCHANGED <<childNodes, label, annotation, fkind, info0, tpc, calls,
                   returned, run, snap, throwAt>>
    /\ UNCHANGED notTreeVars

\* for (var i = 0, child; child = node.childNodes[i]; i++)
\*   result = this.visit(child, result[1]);        -- the call
VisitRecurse ==
    /\ tpc = "visit"
    /\ Top.pc = "loop"
    /\ Top.i < Len(childNodes[Top.node])
    /\ stack' = Append(stack, [node |-> childNodes[Top.node][Top.i + 1],
                               info |-> Top.result[2], pc |-> "func",
                               i |-> 0, result |-> NoValue])
    /\ UNCHANGED <<childNodes, label, annotation, fkind, info0, tpc, calls,
                   returned, run, snap, throwAt>>
    /\ UNCHANGED notTreeVars

\* visit returning without the caller taking the child's value as its
\* result (this.visit(child, result[1]) without the assignment).
VisitReturn_ResultNotAssigned ==
    /\ tpc = "visit"
    /\ Top.pc = "loop"
    /\ Top.i = Len(childNodes[Top.node])
    /\ returned' = [returned EXCEPT ![Top.node] = Top.result]
    /\ IF Len(stack) = 1
       THEN /\ stack' = <<>>
            /\ tpc' = "done"
       ELSE /\ LET caller == stack[Len(stack) - 1]
               IN  stack' = ReplaceTop(Pop(stack),
                               [caller EXCEPT !.i = caller.i + 1])
            /\ tpc' = tpc
    /\ UNCHANGED <<childNodes, label, annotation, fkind, info0, calls, run,
                   snap, throwAt>>
    /\ UNCHANGED notTreeVars

\* visit returning, at a node without children, the input info in place
\* of the info func propagates.
VisitReturn_LeafInputInfo ==
    /\ tpc = "visit"
    /\ Top.pc = "loop"
    /\ Top.i = Len(childNodes[Top.node])
    /\ LET ret == IF Len(childNodes[Top.node]) = 0
                  THEN <<Top.result[1], Top.info>> ELSE Top.result
       IN  /\ returned' = [returned EXCEPT ![Top.node] = ret]
           /\ IF Len(stack) = 1
              THEN /\ stack' = <<>>
                   /\ tpc' = "done"
              ELSE /\ LET caller == stack[Len(stack) - 1]
                      IN  stack' = ReplaceTop(Pop(stack),
                                      [caller EXCEPT !.result = ret,
                                                     !.i = caller.i + 1])
                   /\ tpc' = tpc
    /\ UNCHANGED <<childNodes, label, annotation, fkind, info0, calls, run,
                   snap, throwAt>>
    /\ UNCHANGED notTreeVars

\* return result;  and in the caller  result = <returned value>; i++
VisitReturn ==
    /\ tpc = "visit"
    /\ Top.pc = "loop"
    /\ Top.i = Len(childNodes[Top.node])
    /\ returned' = [returned EXCEPT ![Top.node] = Top.result]
    /\ IF Len(stack) = 1
       THEN /\ stack' = <<>>
            /\ tpc' = "done"
       ELSE /\ LET caller == stack[Len(stack) - 1]
               IN  stack' = ReplaceTop(Pop(stack),
                               [caller EXCEPT !.result = Top.result,
                                              !.i = caller.i + 1])
            /\ tpc' = tpc
    /\ UNCHANGED <<childNodes, label, annotation, fkind, info0, calls, run,
                   snap, throwAt>>
    /\ UNCHANGED notTreeVars

\* this.func(node, info) throws, and the visit of the node is given up:
\* the caller goes on with the next child.
VisitThrow_SkipNode ==
    /\ tpc = "visit"
    /\ Top.pc = "func"
    /\ Top.node = throwAt
    /\ calls' = Append(calls, [node |-> Top.node, info |-> Top.info,
                               res |-> NoValue, ok |-> FALSE])
    /\ IF Len(stack) = 1
       THEN /\ stack' = <<>>
            /\ tpc' = "done"
       ELSE /\ LET caller == stack[Len(stack) - 1]
               IN  stack' = ReplaceTop(Pop(stack),
                               [caller EXCEPT !.i = caller.i + 1])
            /\ tpc' = tpc
    /\ UNCHANGED <<childNodes, label, annotation, fkind, info0, returned,
                   run, snap, throwAt>>
    /\ UNCHANGED notTreeVars

\* var result = this.func(node, info);  -- func throws.  No call of visit
\* on the stack has a handler: the error leaves the top-level visit.
VisitThrow ==
    /\ tpc = "visit"
    /\ Top.pc = "func"
    /\ Top.node = throwAt
    /\ calls' = Append(calls, [node |-> Top.node, info |-> Top.info,
                               res |-> NoValue, ok |-> FALSE])
    /\ stack' = <<>>
    /\ tpc' = "visitThrew"
    /\ UNCHANGED <<childNodes, label, annotation, fkind, info0, returned,
                   run, snap, throwAt>>
    /\ UNCHANGED notTreeVars

VisitNext ==
    \/ VisitFunc
    \/ VisitRecurse
    \/ VisitReturn
    \/ VisitThrow

----------------------------------------------------------------------------
(* sre.SemanticAnnotator.                                                  *)

AnnotatorKinds == {"label", "size", "height", "revision"}

\* The annotation of child c under domain k in the maps ann, 0 when it
\* has none.
ChildAnnotation(ann, k, c) ==
    IF k \in DOMAIN ann[c] THEN ann[c][k] ELSE 0

RECURSIVE SumSeq(_)
SumSeq(q) == IF Len(q) = 0 THEN 0 ELSE q[1] + SumSeq(Tail(q))

RECURSIVE MaxSeq(_)
MaxSeq(q) ==
    IF Len(q) = 0 THEN 0
    ELSE LET m == MaxSeq(Tail(q)) IN IF q[1] > m THEN q[1] ELSE m

\* The annotation functions func(node), functions of the node's value and
\* of the annotations its children carry under the annotator's domain
\* (ann: the annotation maps of the nodes when func is applied):
\*   label    the value of the node;
\*   size     1 + the sum of the children's annotations;
\*   height   1 + the largest of the children's annotations;
\* and one that reads the annotation the node itself carries under the
\* domain, as func may, the node being handed to it as it is:
\*   revision 1 + the node's own annotation (1 for a node without one).
AnnotatorFunc(ann, k, n) ==
    LET cs == [j \in 1..Len(childNodes[n]) |->
                   ChildAnnotation(ann, k, childNodes[n][j])]
    IN  CASE k = "label"  -> label[n]
          [] k = "size"   -> 1 + SumSeq(cs)
          [] k = "height" -> 1 + MaxSeq(cs)
          [] k = "revision" -> 1 + ChildAnnotation(ann, k, n)

AnnotateInit ==
    /\ childNodes \in Trees
    /\ label \in [DOMAIN childNodes -> Labels]
    /\ annotation = [n \in DOMAIN childNodes |-> <<>>]
    /\ fkind \in AnnotatorKinds
    /\ info0 = 0
    /\ stack = <<[node |-> 1, i |-> 0]>>
    /\ tpc = "annotate"
    /\ calls = <<>>
    /\ returned = <<>>
    /\ run = 1
    /\ snap = <<>>
    /\ throwAt \in 0..Len(childNodes)

\* The children taken from the last to the first.
AnnotateRecurse_LastChildFirst ==
    /\ tpc = "annotate"
    /\ Top.i < Len(childNodes[Top.node])
    /\ stack' = Append(stack,
                    [node |-> childNodes[Top.node]
                                        [Len(childNodes[Top.node]) - Top.i],
                     i |-> 0])
    /\ UNCHANGED <<childNodes, label, annotation, fkind, info0, tpc, calls,
                   returned, run, snap, throwAt>>
    /\ UNCHANGED notTreeVars

\* node.childNodes.forEach(goog.bind(this.annotate, this));  -- one call
AnnotateRecurse ==
    /\ tpc = "annotate"
    /\ Top.i < Len(childNodes[Top.node])
    /\ stack' = Append(stack, [node |-> childNodes[Top.node][Top.i + 1],
                               i |-> 0])
    /\ UNCHANGED <<childNodes, label, annotation, fkind, info0, tpc, calls,
                   returned, run, snap, throwAt>>
    /\ UNCHANGED notTreeVars

\* node.addAnnotation(this.domain, this.func(node));  and the return
AnnotateFunc ==
    /\ tpc = "annotate"
    /\ Top.i = Len(childNodes[Top.node])
    /\ Top.node # throwAt
    /\ LET v == AnnotatorFunc(annotation, fkind, Top.node)
       IN  /\ annotation' = [annotation EXCEPT ![Top.node] =
                                addAnnotation(@, fkind, v)]
           /\ calls' = Append(calls, [node |-> Top.node, run |-> run,
                                      res |-> v, ok |-> TRUE])
    /\ IF Len(stack) = 1
       THEN /\ stack' = <<>>
            /\ tpc' = "done"
       ELSE /\ LET caller == stack[Len(stack) - 1]
               IN  stack' = ReplaceTop(Pop(stack),
                               [caller EXCEPT !.i = caller.i + 1])
            /\ tpc' = tpc
    /\ UNCHANGED <<childNodes, label, fkind, info0, returned, run, snap,
                   throwAt>>
    /\ UNCHANGED notTreeVars

\* node.addAnnotation(this.domain, this.func(node));  -- func throws.
\* Neither annotate nor forEach has a handler: the error leaves the
\* top-level annotate, and addAnnotation is not reached.
AnnotateThrow ==
    /\ tpc = "annotate"
    /\ Top.i = Len(childNodes[Top.node])
    /\ Top.node = throwAt
    /\ calls' = Append(calls, [node |-> Top.node, run |-> run,
                               res |-> 0, ok |-> FALSE])
    /\ stack' = <<>>
    /\ tpc' = "annotateThrew"
    /\ UNCHANGED <<childNodes, label, annotation, fkind, info0, returned,
                   run, snap, throwAt>>
    /\ UNCHANGED notTreeVars

\* A second annotate(root) of the same annotator on the annotated tree.
AnnotateAgain ==
    /\ tpc = "done"
    /\ run = 1
    /\ fkind \in AnnotatorKinds
    /\ snap' = annotation
    /\ run' = 2
    /\ stack' = <<[node |-> 1, i |-> 0]>>
    /\ tpc' = "annotate"
    /\ UNCHANGED <<childNodes, label, annotation, fkind, info0, calls,
                   returned, throwAt>>
    /\ UNCHANGED notTreeVars

AnnotateNext ==
    \/ AnnotateRecurse
    \/ AnnotateFunc
    \/ AnnotateThrow
    \/ AnnotateAgain

\* A step of a running annotate call.
AnnotateStep ==
    \/ AnnotateRecurse
    \/ AnnotateFunc
    \/ AnnotateThrow

\* A top-level visit or a top-level annotate.
TraverseNext ==
    \/ VisitFunc
    \/ VisitRecurse
    \/ VisitReturn
    \/ VisitThrow
    \/ AnnotateRecurse
    \/ AnnotateFunc
    \/ AnnotateThrow
    \/ AnnotateAgain

----------------------------------------------------------------------------
(* Glyph strings and Maps (ts/semantic_tree/semantic_attr.ts).             *)
(*                                                                         *)
(* A glyph string is the sequence of its Unicode code points: '(' is       *)
(* <<40>>, 'mod' is <<109, 111, 100>>, the empty string is <<>>.           *)

\* An array literal of one-character strings, given by their code points.
Chars(cps) == [j \in 1..Len(cps) |-> <<cps[j]>>]

\* An array literal of [key, value] entries of one-character strings, given
\* by the code points key, value, key, value, ...
Pairs(cps) ==
    [j \in 1..(Len(cps) \div 2) |-> << <<cps[2 * j - 1]>>, <<cps[2 * j]>> >>]

\* The elements of an array.
Range(arr) == {arr[j] : j \in 1..Len(arr)}

\* Array.prototype.indexOf: the first index (from 0) of x in arr, or -1.
indexOf(arr, x) ==
    IF \E j \in 1..Len(arr) : arr[j] = x
    THEN (CHOOSE j \in 1..Len(arr) :
              arr[j] = x /\ \A k \in 1..(j - 1) : arr[k] # x) - 1
    ELSE -1

\* A Map whose order is observed (keys(), values()) is the sequence of its
\* <<key, value>> entries, keys distinct, in insertion order.
MapHas(m, k) == \E j \in 1..Len(m) : m[j][1] = k

\* Map.prototype.set: replaces the value of a present key in place, appends
\* an absent one.
MapSet(m, k, v) ==
    IF MapHas(m, k)
    THEN [j \in 1..Len(m) |-> IF m[j][1] = k THEN <<k, v>> ELSE m[j]]
    ELSE Append(m, <<k, v>>)

\* new Map(entries): a key is entered where it first occurs, with the value
\* of its last occurrence.
NewMap(entries) ==
    LET n == Len(entries)
        isFirst(j) == \A k \in 1..(j - 1) : entries[k][1] # entries[j][1]
        lastOf(j) == CHOOSE k \in j..n :
                         /\ entries[k][1] = entries[j][1]
                         /\ \A l \in (k + 1)..n : entries[l][1] # entries[j][1]
        firsts == SelectSeq([j \in 1..n |-> j], isFirst)
    IN  [j \in 1..Len(firsts) |->
            <<entries[firsts[j]][1], entries[lastOf(firsts[j])][2]>>]

\* The value undefined where a glyph string is expected: equal to no string.
undefinedGlyph == <<-1>>

\* Map.prototype.get
MapGet(m, k) ==
    IF MapHas(m, k) THEN m[CHOOSE j \in 1..Len(m) : m[j][1] = k][2]
    ELSE undefinedGlyph

\* [...m.keys()]  and  [...m.values()]
MapKeys(m) == [j \in 1..Len(m) |-> m[j][1]]

MapValues(m) == [j \in 1..Len(m) |-> m[j][2]]

----------------------------------------------------------------------------
(* Fences.                                                                 *)

\* SemanticMap.FencesHoriz: opening to closing fences.
FencesHoriz ==
    NewMap(
    Pairs(<<40, 41, 91, 93, 123, 125, 8261, 8262, 9001, 9002, 10088, 10089,
            10090, 10091, 10092, 10093, 10094, 10095, 10096, 10097, 10098,
            10099, 10100, 10101, 10181, 10182, 10214, 10215, 10216, 10217,
            10218, 10219, 10220, 10221, 10222, 10223, 10627, 10628, 10629,
            10630, 10631, 10632, 10633, 10634, 10635, 10636, 10637, 10638,
            10639, 10640, 10641, 10642, 10643, 10644, 10645, 10646, 10647,
            10648, 10712, 10713, 10714, 10715, 10748, 10749, 11810, 11811,
            11812, 11813, 11814, 11815, 11816, 11817, 12296, 12297, 12298,
            12299, 12300, 12301, 12302, 12303, 12304, 12305, 12308, 12309,
            12310, 12311, 12312, 12313, 12314, 12315, 64830, 64831, 65047,
            65048, 65113, 65114, 65115, 65116, 65117, 65118, 65288, 65289,
            65339, 65341, 65371, 65373, 65375, 65376, 65378, 65379, 8968,
            8969, 8970, 8971, 8972, 8973, 8974, 8975, 8988, 8989, 8990, 8991,
            9115, 9118, 9116, 9119, 9117, 9120, 9121, 9124, 9122, 9125, 9123,
            9126, 9127, 9131, 9128, 9132, 9129, 9133, 9136, 9137, 9144, 9145>>))

\* SemanticMap.FencesVert: top to bottom fences.
FencesVert ==
    NewMap(
    Pairs(<<9140, 9141, 9180, 9181, 9182, 9183, 9184, 9185, 65077, 65078,
            65079, 65080, 65081, 65082, 65083, 65084, 65085, 65086, 65087,
            65088, 65089, 65090, 65091, 65092, 65095, 65096>>))

neutralFences ==
    Chars(<<124, 166, 8739, 9168, 9144, 9145, 10072, 65372, 65508, 65073,
            65074, 65075, 65076, 65512>>)

metricFences ==
    Chars(<<8214, 8741, 10624, 10996>>)

\* isMatchingFence(open, close)
isMatchingFence_TablesFirst(open, close) ==
    \/ MapGet(FencesHoriz, open) = close
    \/ MapGet(FencesVert, open) = close
    \/ /\ \/ indexOf(neutralFences, open) # -1
          \/ indexOf(metricFences, open) # -1
       /\ open = close

isMatchingFence_EitherDirection(open, close) ==
    IF \/ indexOf(neutralFences, open) # -1
       \/ indexOf(metricFences, open) # -1
    THEN open = close
    ELSE \/ MapGet(FencesHoriz, open) = close
         \/ MapGet(FencesVert, open) = close
         \/ MapGet(FencesHoriz, close) = open
         \/ MapGet(FencesVert, close) = open

isMatchingFence(open, close) ==
    IF \/ indexOf(neutralFences, open) # -1
       \/ indexOf(metricFences, open) # -1
    THEN open = close
    ELSE \/ MapGet(FencesHoriz, open) = close
         \/ MapGet(FencesVert, open) = close

\* The glyphs of the fence tables, a letter and the empty string.
FenceInputs ==
    Range(MapKeys(FencesHoriz)) \cup Range(MapValues(FencesHoriz))
        \cup Range(MapKeys(FencesVert)) \cup Range(MapValues(FencesVert))
        \cup Range(neutralFences) \cup Range(metricFences)
        \cup {<<97>>, <<>>}

FencesInit ==
    /\ openArg \in FenceInputs
    /\ closeArg \in FenceInputs
    /\ matched = <<>>
    /\ matchedBack = <<>>

FencesIdle ==
    /\ openArg = <<>>
    /\ closeArg = <<>>
    /\ matched = <<>>
    /\ matchedBack = <<>>

CallIsMatchingFence ==
    /\ matched = <<>>
    /\ matched' = <<isMatchingFence(openArg, closeArg)>>
    /\ UNCHANGED <<openArg, closeArg, matchedBack>>
    /\ UNCHANGED notFenceVars

\* isMatchingFence(close, open): a second call, on the same two glyphs in
\* the other order.
CallIsMatchingFenceBack ==
    /\ matched # <<>>
    /\ matchedBack = <<>>
    /\ matchedBack' = <<isMatchingFence(closeArg, openArg)>>
    /\ UNCHANGED <<openArg, closeArg, matched>>
    /\ UNCHANGED notFenceVars

FencesNext ==
    \/ CallIsMatchingFence
    \/ CallIsMatchingFenceBack

----------------------------------------------------------------------------
(* The symbol meaning registry.                                            *)
(*                                                                         *)
(* The enumerations SemanticType, SemanticRole, SemanticFont and           *)
(* SemanticSecondary and the module Alphabet are imported (lines 50-57).   *)
(* A type, role or font is written as the name of its enumeration member;  *)
(* a secondary kind is the glyph string of its value, since secKey builds  *)
(* it into a key string.  An optional field of a MeaningSet that is not    *)
(* given is absent from the record.                                        *)

\* SemanticSecondary.ALLLETTERS = 'allLetters'
ALLLETTERS == <<97, 108, 108, 76, 101, 116, 116, 101, 114, 115>>

\* SemanticSecondary.BAR = 'bar'
BAR == <<98, 97, 114>>

\* SemanticSecondary.TILDE = 'tilde'
TILDE == <<116, 105, 108, 100, 101>>

\* SemanticSecondary.D = 'd'
D == <<100>>

\* The value of a hexadecimal digit.
HexDigit(c) ==
    CASE c = "0" -> 0 [] c = "1" -> 1 [] c = "2" -> 2 [] c = "3" -> 3
      [] c = "4" -> 4 [] c = "5" -> 5 [] c = "6" -> 6 [] c = "7" -> 7
      [] c = "8" -> 8 [] c = "9" -> 9
      [] c \in {"a", "A"} -> 10 [] c \in {"b", "B"} -> 11
      [] c \in {"c", "C"} -> 12 [] c \in {"d", "D"} -> 13
      [] c \in {"e", "E"} -> 14 [] c \in {"f", "F"} -> 15

\* parseInt(s, 16)
RECURSIVE HexValue(_)
HexValue(s) ==
    IF Len(s) = 0 THEN 0
    ELSE 16 * HexValue(SubSeq(s, 1, Len(s) - 1))
             + HexDigit(SubSeq(s, Len(s), Len(s)))

\* Alphabet.makeMultiInterval: the characters of a list of code points and
\* of inclusive code point intervals, in list order.  A single code point
\* 'x' is written <<"x">>, an interval ['x', 'y'] is written <<"x", "y">>.
RECURSIVE makeMultiInterval(_)
makeMultiInterval(ints) ==
    IF Len(ints) = 0 THEN <<>>
    ELSE LET int == Head(ints)
             first == HexValue(int[1])
             last == HexValue(int[Len(int)])
         IN  [j \in 1..(last - first + 1) |-> <<first + j - 1>>]
                 \o makeMultiInterval(Tail(ints))

\* symbolSetToSemantic_: the groups with their sets written out; each is
\* preceded by its lines and by the name and lines of the array it names.
symbolSetToSemantic_ ==
    <<
    \* group 1, lines 1712-1716: generalPunctuations (280-335)
    [set |->
     Chars(<<35, 37, 38, 64, 92, 167, 182, 8215, 8226, 8227, 8228, 8229, 8231,
             8240, 8241, 8251, 8257, 8258, 8259, 8267, 8268, 8269, 8272, 8277,
             8278, 8280, 8281, 8282, 8283, 8284, 8285, 8286, 65093, 65094,
             65119, 65120, 65128, 65130, 65131, 65283, 65285, 65286, 65295,
             65312, 65340, 8756, 8757, 8265, 8252, 191, 8263, 8264, 161>>),
     type |-> "PUNCTUATION", role |-> "UNKNOWN"],
    \* group 2, lines 1717-1721: quotes (336-357)
    [set |->
     Chars(<<34, 65040, 65282, 65287, 733, 8216, 8217, 8218, 8219, 8220, 8221,
             8222, 8223, 8249, 8250, 187, 171, 12317, 12318, 12319>>),
     type |-> "PUNCTUATION", role |-> "QUOTES"],
    \* group 3, lines 1722-1726: semicolons (358-366)
    [set |->
     Chars(<<59, 8271, 65044, 65108, 65307, 10814, 10783>>),
     type |-> "PUNCTUATION", role |-> "SEMICOLON"],
    \* group 4, lines 1727-1731: questionmarks (367-373)
    [set |->
     Chars(<<63, 8253, 65046, 65110, 65311>>),
     type |-> "PUNCTUATION", role |-> "QUESTION"],
    \* group 5, lines 1732-1736: exclamationmarks (374-379)
    [set |->
     Chars(<<33, 65045, 65111, 65281>>),
     type |-> "PUNCTUATION", role |-> "EXCLAMATION"],
    \* group 6, lines 1737-1741: overaccents (416-433)
    [set |->
     Chars(<<94, 711, 96, 168, 170, 180, 186, 728, 729, 730, 8256, 8314, 8317,
             8318, 65342, 65344>>),
     type |-> "PUNCTUATION", role |-> "OVERACCENT"],
    \* group 7, lines 1742-1746: underaccents (434-444)
    [set |->
     Chars(<<184, 731, 8255, 8276, 8330, 8333, 8334, 8248>>),
     type |-> "PUNCTUATION", role |-> "UNDERACCENT"],
    \* group 8, lines 1747-1751: colons (380-380)
    [set |->
     Chars(<<65043, 58, 65306, 65109, 65072, 10626>>),
     type |-> "PUNCTUATION", role |-> "COLON"],
    \* group 9, lines 1752-1756: commas (381-381)
    [set |->
     Chars(<<65292, 65104, 44, 8291>>),
     type |-> "PUNCTUATION", role |-> "COMMA"],
    \* group 10, lines 1757-1761: ellipses (382-382)
    [set |->
     Chars(<<8230, 8942, 8943, 8944, 8945, 65049>>),
     type |-> "PUNCTUATION", role |-> "ELLIPSIS"],
    \* group 11, lines 1762-1766: fullStops (383-383)
    [set |->
     Chars(<<46, 65106, 65294>>),
     type |-> "PUNCTUATION", role |-> "FULLSTOP"],
    \* group 12, lines 1767-1772: dashes (384-412)
    [set |->
     Chars(<<175, 8254, 8210, 8211, 8212, 8213, 65112, 45, 8315, 8331, 8722,
             10134, 65123, 65293, 8208, 8209, 8254, 95, 65101, 65102, 65103,
             65343, 65507, 65097, 65098, 65099, 65100>>),
     type |-> "OPERATOR", role |-> "DASH", secondary |-> BAR],
    \* group 13, lines 1773-1778: tildes (413-413)
    [set |->
     Chars(<<126, 771, 8764, 732, 8765, 759, 820, 816, 12316, 65374, 8275>>),
     type |-> "OPERATOR", role |-> "TILDE", secondary |-> TILDE],
    \* group 14, lines 1779-1783: primes (414-414)
    [set |->
     Chars(<<39, 8242, 8243, 8244, 8245, 8246, 8247, 8279, 697, 698>>),
     type |-> "PUNCTUATION", role |-> "PRIME"],
    \* group 15, lines 1784-1788: degrees (415-415)
    [set |->
     Chars(<<176>>),
     type |-> "PUNCTUATION", role |-> "DEGREE"],
    \* group 16, lines 1790-1794: leftFences (445)
    [set |->
     MapKeys(FencesHoriz),
     type |-> "FENCE", role |-> "OPEN"],
    \* group 17, lines 1795-1799: rightFences (446)
    [set |->
     MapValues(FencesHoriz),
     type |-> "FENCE", role |-> "CLOSE"],
    \* group 18, lines 1800-1804: topFences (447)
    [set |->
     MapKeys(FencesVert),
     type |-> "FENCE", role |-> "TOP"],
    \* group 19, lines 1805-1809: bottomFences (448)
    [set |->
     MapValues(FencesVert),
     type |-> "FENCE", role |-> "BOTTOM"],
    \* group 20, lines 1810-1814: neutralFences (450-465)
    [set |->
     neutralFences,
     type |-> "FENCE", role |-> "NEUTRAL"],
    \* group 21, lines 1815-1819: metricFences (466-466)
    [set |->
     metricFences,
     type |-> "FENCE", role |-> "METRIC"],
    \* group 22, lines 1821-1827
    [set |->
     makeMultiInterval(<< <<"2145", "2149">> >>),
     type |-> "IDENTIFIER", role |-> "LATINLETTER",
     font |-> "DOUBLESTRUCKITALIC", secondary |-> ALLLETTERS],
    \* group 23, lines 1829-1835
    [set |->
     makeMultiInterval(<< <<"213c", "213f">> >>),
     type |-> "IDENTIFIER", role |-> "GREEKLETTER",
     font |-> "DOUBLESTRUCK", secondary |-> ALLLETTERS],
    \* group 24, lines 1836-1844
    [set |->
     makeMultiInterval(<< <<"3d0">>, <<"3d7">>, <<"3f6">>, <<"1d26", "1d2a">>,
                          <<"1d5e">>, <<"1d60">>, <<"1d66", "1d6a">> >>),
     type |-> "IDENTIFIER", role |-> "GREEKLETTER",
     font |-> "NORMAL", secondary |-> ALLLETTERS],
    \* group 25, lines 1846-1852
    [set |->
     makeMultiInterval(<< <<"2135", "2138">> >>),
     type |-> "IDENTIFIER", role |-> "OTHERLETTER",
     font |-> "NORMAL", secondary |-> ALLLETTERS],
    \* group 26, lines 1854-1858
    [set |->
     makeMultiInterval(<< <<"00bc", "00be">>, <<"2150", "215f">>, <<"2189">> >>),
     type |-> "NUMBER", role |-> "FLOAT"],
    \* group 27, lines 1859-1863
    [set |->
     makeMultiInterval(<< <<"23E8">>, <<"3248", "324f">> >>),
     type |-> "NUMBER", role |-> "INTEGER"],
    \* group 28, lines 1865-1869: additions (474-534), with invisiblePlus
    \*   pushed (535)
    [set |->
     Append(
       Chars(<<43, 177, 8723, 8724, 8744, 8746, 8844, 8845, 8846, 8852, 8861,
               8862, 8891, 8900, 8910, 8915, 8853, 10011, 10012, 10133, 65122,
               65291, 10809, 10786, 10787, 10788, 10789, 10790, 10791, 10792,
               10797, 10798, 10972, 10973, 10746, 10747, 10750, 8893, 10191,
               10818, 10821, 10822, 10824, 10826, 10828, 10831, 10832, 10834,
               10836, 10838, 10839, 10841, 10843, 10845, 10849, 10850, 10851,
               8964>>),
       <<8292>>),
     type |-> "OPERATOR", role |-> "ADDITION"],
    \* group 29, lines 1870-1874: multiplications (537-624), with
    \*   invisibleTimes pushed (625)
    [set |->
     Append(
       Chars(<<8889, 8224, 8225, 8727, 8728, 8729, 8768, 8858, 8859, 8864,
               8865, 8901, 8902, 8903, 8904, 8905, 8906, 8907, 8908, 9675,
               183, 42, 8270, 8273, 65121, 65290, 8855, 8857, 10005, 10006,
               215, 10799, 10800, 10801, 10802, 10803, 10804, 10805, 10806,
               10807, 10811, 10812, 10813, 10781, 10705, 10706, 10707, 10708,
               10709, 10710, 10711, 10722, 8916, 10970, 10971, 8743, 8745,
               8851, 8892, 8911, 8914, 10846, 8965, 8966, 10190, 10193, 10816,
               10819, 10820, 10823, 10825, 10827, 10829, 10830, 10833, 10835,
               10837, 10840, 10842, 10844, 10847, 10848, 8963>>),
       <<8290>>),
     type |-> "OPERATOR", role |-> "MULTIPLICATION"],
    \* group 30, lines 1875-1879: subtractions (627-651)
    [set |->
     Chars(<<175, 45, 8274, 8315, 8331, 8722, 8726, 8760, 8770, 8854, 8863,
             10134, 10793, 10794, 10795, 10796, 10810, 10817, 65123, 65293,
             8208, 8209, 10751>>),
     type |-> "OPERATOR", role |-> "SUBTRACTION"],
    \* group 31, lines 1880-1884: divisions (652-656)
    [set |->
     Chars(<<47, 247, 8260, 8725, 8856, 10188, 10684, 10808, 10135, 10741,
             10742, 10743, 10744, 10745>>),
     type |-> "OPERATOR", role |-> "DIVISION"],
    \* group 32, lines 1885-1889
    [set |->
     Chars(<<8704, 8707, 8710, 8705, 8708, 8730, 8731, 8732, 172, 65506, 8976>>),
     type |-> "OPERATOR", role |-> "PREFIXOP"],
    \* group 33, lines 1890-1894: operatorBits (1547-1550)
    [set |->
     Chars(<<8992, 8993, 9142, 9130, 9134, 9135, 9138, 9139, 9143>>),
     type |-> "OPERATOR", role |-> "PREFIXOP"],
    \* group 34, lines 1895-1900
    [set |->
     Chars(<<120778, 120779>>),
     type |-> "OPERATOR", role |-> "PREFIXOP", font |-> "BOLD"],
    \* group 35, lines 1902-1906: equalities (658-721)
    [set |->
     Chars(<<61, 126, 8316, 8332, 8764, 8765, 8771, 8773, 8776, 8778, 8779,
             8780, 8781, 8782, 8785, 8786, 8787, 8788, 8789, 8790, 8791, 8792,
             8793, 8794, 8795, 8796, 8797, 8798, 8799, 8801, 8803, 10724,
             10854, 10862, 10863, 10864, 10865, 10866, 10867, 10868, 10869,
             10870, 10871, 10872, 8917, 10861, 10858, 10859, 10860, 65126,
             65309, 10860, 8860, 8759, 8762, 8763, 8766, 8767, 8909, 10855,
             10726, 8733>>),
     type |-> "RELATION", role |-> "EQUALITY"],
    \* group 36, lines 1907-1911: inequalities (722-866)
    [set |->
     Chars(<<60, 62, 8769, 8770, 8772, 8774, 8775, 8777, 8783, 8784, 8800,
             8802, 8804, 8805, 8806, 8807, 8808, 8809, 8810, 8811, 8812, 8813,
             8814, 8815, 8816, 8817, 8818, 8819, 8820, 8821, 8822, 8823, 8824,
             8825, 8826, 8827, 8828, 8829, 8830, 8831, 8832, 8833, 8918, 8919,
             8920, 8921, 8922, 8923, 8924, 8925, 8926, 8927, 8928, 8929, 8934,
             8935, 8936, 8937, 10873, 10874, 10875, 10876, 10877, 10878,
             10879, 10880, 10881, 10882, 10883, 10884, 10885, 10886, 10887,
             10888, 10889, 10890, 10891, 10892, 10893, 10894, 10895, 10896,
             10897, 10898, 10899, 10900, 10901, 10902, 10903, 10904, 10905,
             10906, 10907, 10908, 10909, 10910, 10911, 10912, 10913, 10914,
             10915, 10916, 10917, 10918, 10919, 10920, 10921, 10922, 10923,
             10924, 10925, 10926, 10927, 10928, 10929, 10930, 10931, 10932,
             10933, 10934, 10935, 10936, 10937, 10938, 10939, 10940, 10999,
             11000, 11001, 11002, 10688, 10689, 65124, 65125, 65308, 65310,
             10614, 10615, 10616, 8880, 8881, 10723, 10725, 10721>>),
     type |-> "RELATION", role |-> "INEQUALITY"],
    \* group 37, lines 1912-1916: setRelations (867-940)
    [set |->
     Chars(<<8930, 8931, 8932, 8933, 8834, 8835, 8836, 8837, 8838, 8839, 8840,
             8841, 8842, 8843, 8847, 8848, 8849, 8850, 10941, 10942, 10943,
             10944, 10945, 10946, 10947, 10948, 10949, 10950, 10951, 10952,
             10953, 10954, 10955, 10956, 10957, 10958, 10959, 10960, 10961,
             10962, 10963, 10964, 10965, 10966, 10967, 10968, 8912, 8913,
             8938, 8939, 8940, 8941, 8882, 8883, 8884, 8885, 10617, 10618,
             10619, 10179, 10180, 10183, 10184, 10185, 8886, 8887, 8888,
             10197, 10198, 10199, 10204, 10719>>),
     type |-> "RELATION", role |-> "SET"],
    \* group 38, lines 1917-1921: relations (1355-1390)
    [set |->
     Chars(<<8758, 10208, 10209, 10210, 10211, 10212, 10213, 10539, 10540,
             10677, 10678, 10679, 10680, 10681, 10682, 10683, 10686, 10687,
             10690, 10691, 10692, 10693, 10694, 10695, 10696, 10697, 10698,
             10699, 10700, 10701, 10702, 10703, 10704>>),
     type |-> "RELATION", role |-> "UNKNOWN"],
    \* group 39, lines 1922-1926: setEmpty (959-959)
    [set |->
     Chars(<<8709, 10672, 10675, 10673, 10674, 10676>>),
     type |-> "IDENTIFIER", role |-> "SETEMPTY"],
    \* group 40, lines 1927-1931: infty (960-966)
    [set |->
     Chars(<<10716, 10717, 10718, 8734, 6834>>),
     type |-> "IDENTIFIER", role |-> "INFTY"],
    \* group 41, lines 1932-1936: logicRelations (983-1010)
    [set |->
     Chars(<<8866, 8867, 8870, 8871, 8872, 8873, 8874, 8875, 8876, 8877, 8878,
             8879, 10974, 10978, 10979, 10980, 10981, 10982, 10988, 10989,
             10202, 10203, 10205, 10206>>),
     type |-> "RELATION", role |-> "LOGIC"],
    \* group 42, lines 1937-1941: logicIdentifier (967-982)
    [set |->
     Chars(<<10975, 10976, 10983, 10984, 10985, 10986, 10987, 10200, 10201,
             10207, 10993, 8868, 8869, 8890>>),
     type |-> "IDENTIFIER", role |-> "LOGIC"],
    \* group 43, lines 1942-1946: arrows (1011-1354)
    [set |->
     Chars(<<8592, 8593, 8594, 8595, 8596, 8597, 8598, 8599, 8600, 8601, 8602,
             8603, 8604, 8605, 8606, 8607, 8608, 8609, 8610, 8611, 8612, 8613,
             8614, 8615, 8616, 8617, 8618, 8619, 8620, 8621, 8622, 8623, 8624,
             8625, 8626, 8627, 8628, 8629, 8630, 8631, 8632, 8633, 8634, 8635,
             8644, 8645, 8646, 8647, 8648, 8649, 8650, 8653, 8654, 8655, 8656,
             8657, 8658, 8659, 8660, 8661, 8662, 8663, 8664, 8665, 8666, 8667,
             8668, 8669, 8670, 8671, 8672, 8673, 8674, 8675, 8676, 8677, 8678,
             8679, 8680, 8681, 8682, 8683, 8684, 8685, 8686, 8687, 8688, 8689,
             8690, 8691, 8692, 8693, 8694, 8695, 8696, 8697, 8698, 8699, 8700,
             8701, 8702, 8703, 8961, 8996, 9099, 10132, 10136, 10137, 10138,
             10139, 10140, 10141, 10142, 10143, 10144, 10145, 10146, 10147,
             10148, 10149, 10150, 10151, 10152, 10153, 10154, 10155, 10156,
             10157, 10158, 10159, 10161, 10162, 10163, 10164, 10165, 10166,
             10167, 10168, 10169, 10170, 10171, 10172, 10173, 10174, 10224,
             10225, 10226, 10227, 10228, 10229, 10230, 10231, 10232, 10233,
             10234, 10235, 10236, 10237, 10238, 10239, 10496, 10497, 10498,
             10499, 10500, 10501, 10502, 10503, 10504, 10505, 10506, 10507,
             10508, 10509, 10510, 10511, 10512, 10513, 10514, 10515, 10516,
             10517, 10518, 10519, 10520, 10521, 10522, 10523, 10524, 10525,
             10526, 10527, 10528, 10529, 10530, 10531, 10532, 10533, 10534,
             10535, 10536, 10537, 10538, 10541, 10542, 10543, 10544, 10545,
             10546, 10547, 10548, 10549, 10550, 10551, 10552, 10553, 10554,
             10555, 10556, 10557, 10558, 10559, 10560, 10561, 10562, 10563,
             10564, 10565, 10566, 10567, 10568, 10569, 10608, 10609, 10610,
             10611, 10612, 10613, 11008, 11009, 11010, 11011, 11012, 11013,
             11014, 11015, 11016, 11017, 11018, 11019, 11020, 11021, 11022,
             11023, 11024, 11025, 11056, 11057, 11058, 11059, 11060, 11061,
             11062, 11063, 11064, 11065, 11066, 11067, 11068, 11069, 11070,
             11071, 11072, 11073, 11074, 11075, 11076, 11077, 11078, 11079,
             11080, 11081, 11082, 11083, 11084, 65513, 65514, 65515, 65516,
             8636, 8637, 8638, 8639, 8640, 8641, 8642, 8643, 8651, 8652,
             10570, 10571, 10572, 10573, 10574, 10575, 10576, 10577, 10578,
             10579, 10580, 10581, 10582, 10583, 10584, 10585, 10586, 10587,
             10588, 10589, 10590, 10591, 10592, 10593, 10594, 10595, 10596,
             10597, 10598, 10599, 10600, 10601, 10602, 10603, 10604, 10605,
             10606, 10607, 10620, 10621, 10622, 10623>>),
     type |-> "RELATION", role |-> "ARROW"],
    \* group 44, lines 1948-1952: elementRelations (941-955)
    [set |->
     Chars(<<8712, 8714, 8946, 8947, 8948, 8949, 8950, 8951, 8952, 8953, 8959,
             10969, 10194>>),
     type |-> "OPERATOR", role |-> "ELEMENT"],
    \* group 45, lines 1953-1957: nonelementRelations (956-956)
    [set |->
     Chars(<<8713>>),
     type |-> "OPERATOR", role |-> "NONELEMENT"],
    \* group 46, lines 1958-1962: reelementRelations (957-957)
    [set |->
     Chars(<<8715, 8717, 8954, 8955, 8956, 8957, 8958>>),
     type |-> "OPERATOR", role |-> "REELEMENT"],
    \* group 47, lines 1963-1967: renonelementRelations (958-958)
    [set |->
     Chars(<<8716>>),
     type |-> "OPERATOR", role |-> "RENONELEMENT"],
    \* group 48, lines 1969-1973: sumOps (1430-1454)
    [set |->
     Chars(<<8512, 8719, 8720, 8721, 8896, 8897, 8898, 8899, 10752, 10753,
             10754, 10755, 10756, 10757, 10758, 10759, 10760, 10761, 10762,
             10763, 11004, 11007, 10815>>),
     type |-> "LARGEOP", role |-> "SUM"],
    \* group 49, lines 1974-1978: intOps (1455-1483)
    [set |->
     Chars(<<8747, 8748, 8749, 8750, 8751, 8752, 8753, 8754, 8755, 10764,
             10765, 10766, 10767, 10775, 10768, 10769, 10770, 10771, 10772,
             10773, 10774, 10775, 10776, 10777, 10778, 10779, 10780>>),
     type |-> "LARGEOP", role |-> "INTEGRAL"],
    \* group 50, lines 1979-1983
    [set |->
     makeMultiInterval(<< <<"2500", "257F">> >>),
     type |-> "RELATION", role |-> "BOX"],
    \* group 51, lines 1984-1988
    [set |->
     makeMultiInterval(<< <<"2580", "259F">> >>),
     type |-> "IDENTIFIER", role |-> "BLOCK"],
    \* group 52, lines 1989-1993
    [set |->
     makeMultiInterval(<< <<"25A0", "25FF">>, <<"2B12", "2B2F">>,
                          <<"2B50", "2B59">> >>),
     type |-> "RELATION", role |-> "GEOMETRY"],
    \* group 53, lines 1994-1998: geometryOps (1521-1546)
    [set |->
     Chars(<<10685, 10730, 10732, 10733, 10728, 10729, 10731, 10734, 10735,
             10736, 10737, 10738, 10739, 8718, 8960, 8962, 10720, 10782,
             11006, 65517, 65518, 8977>>),
     type |-> "OPERATOR", role |-> "GEOMETRY"],
    \* group 54, lines 1999-2003: angles (1485-1520)
    [set |->
     Chars(<<8735, 8736, 8737, 8738, 8894, 8895, 9084, 10176, 10651, 10652,
             10653, 10654, 10655, 10656, 10657, 10658, 10659, 10660, 10661,
             10662, 10663, 10664, 10665, 10666, 10667, 10668, 10669, 10670,
             10671, 8978, 8979, 8980>>),
     type |-> "OPERATOR", role |-> "GEOMETRY"],
    \* group 55, lines 2005-2009: arbitraryChars (1552-1580)
    [set |->
     Chars(<<127274, 127275, 127276, 127370, 8463, 8468, 8470, 8471, 8478,
             8479, 8480, 8481, 8482, 8494, 8498, 8505, 8506, 8507, 8513, 8514,
             8515, 8516, 169, 174, 8525, 8526>>),
     type |-> "IDENTIFIER", role |-> "OTHERLETTER"],
    \* group 56, lines 2014-2018: units (1581-1601)
    [set |->
     Chars(<<8483, 8485, 8486, 8487, 8490, 8491, 36, 162, 163, 164, 165, 181,
             65129, 65284, 65504, 65505, 65509, 65510>>),
     type |-> "IDENTIFIER", role |-> "UNKNOWN"],
    \* group 57, lines 2020-2024: limitFunctions (1683-1695)
    [set |->
     <<<<105, 110, 102>>, <<108, 105, 109>>, <<108, 105, 109, 105, 110, 102>>,
       <<108, 105, 109, 115, 117, 112>>, <<109, 97, 120>>, <<109, 105, 110>>,
       <<115, 117, 112>>, <<105, 110, 106, 108, 105, 109>>,
       <<112, 114, 111, 106, 108, 105, 109>>,
       <<105, 110, 106, 32, 108, 105, 109>>,
       <<112, 114, 111, 106, 32, 108, 105, 109>>>>,
     type |-> "FUNCTION", role |-> "LIMFUNC"],
    \* group 58, lines 2025-2029: prefixFunctions (1673-1678):
    \*   trigonometric (1608-1627), hyperbolic (1628-1647), algebraic (1648-1656),
    \*   elementary (1657-1669)
    [set |->
     <<<<99, 111, 115>>, <<99, 111, 116>>, <<99, 115, 99>>,
          <<115, 101, 99>>, <<115, 105, 110>>, <<116, 97, 110>>,
          <<97, 114, 99, 99, 111, 115>>, <<97, 114, 99, 99, 111, 116>>,
          <<97, 114, 99, 99, 115, 99>>, <<97, 114, 99, 115, 101, 99>>,
          <<97, 114, 99, 115, 105, 110>>, <<97, 114, 99, 116, 97, 110>>,
          <<97, 114, 99, 32, 99, 111, 115>>,
          <<97, 114, 99, 32, 99, 111, 116>>, <<97, 114, 99, 32, 99, 115, 99>>,
          <<97, 114, 99, 32, 115, 101, 99>>,
          <<97, 114, 99, 32, 115, 105, 110>>,
          <<97, 114, 99, 32, 116, 97, 110>>>>
     \o <<<<99, 111, 115, 104>>, <<99, 111, 116, 104>>, <<99, 115, 99, 104>>,
          <<115, 101, 99, 104>>, <<115, 105, 110, 104>>,
          <<116, 97, 110, 104>>, <<97, 114, 99, 111, 115, 104>>,
          <<97, 114, 99, 111, 116, 104>>, <<97, 114, 99, 115, 99, 104>>,
          <<97, 114, 115, 101, 99, 104>>, <<97, 114, 115, 105, 110, 104>>,
          <<97, 114, 116, 97, 110, 104>>, <<97, 114, 99, 99, 111, 115, 104>>,
          <<97, 114, 99, 99, 111, 116, 104>>,
          <<97, 114, 99, 99, 115, 99, 104>>,
          <<97, 114, 99, 115, 101, 99, 104>>,
          <<97, 114, 99, 115, 105, 110, 104>>,
          <<97, 114, 99, 116, 97, 110, 104>>>>
     \o <<<<100, 101, 103>>, <<100, 101, 116>>, <<100, 105, 109>>,
          <<104, 111, 109>>, <<107, 101, 114>>, <<84, 114>>, <<116, 114>>>>
     \o <<<<108, 111, 103>>, <<108, 110>>, <<108, 103>>, <<101, 120, 112>>,
          <<101, 120, 112, 116>>, <<103, 99, 100>>, <<103, 99, 100>>,
          <<97, 114, 103>>, <<105, 109>>, <<114, 101>>, <<80, 114>>>>,
     type |-> "FUNCTION", role |-> "PREFIXFUNC"],
    \* group 59, lines 2030-2034: infixFunctions (1696-1697)
    [set |->
     <<<<109, 111, 100>>, <<114, 101, 109>>>>,
     type |-> "OPERATOR", role |-> "PREFIXFUNC"],
    \* group 60, lines 2038-2043
    [set |->
     Chars(<<305, 567>>),
     type |-> "IDENTIFIER", role |-> "LATINLETTER", font |-> "NORMAL"],
    \* group 61, lines 2045-2050
    [set |->
     Chars(<<120484, 120485>>),
     type |-> "IDENTIFIER", role |-> "LATINLETTER", font |-> "ITALIC"],
    \* group 62, lines 2053-2058
    [set |->
     Chars(<<8467, 8472>>),
     type |-> "IDENTIFIER", role |-> "LATINLETTER", font |-> "SCRIPT"],
    \* group 63, lines 2059-2078
    [set |->
     makeMultiInterval(<< <<"c0", "d6">>, <<"d8", "f6">>, <<"f8", "1bf">>,
                          <<"1c4", "2af">>, <<"1d00", "1d25">>,
                          <<"1d6b", "1d9a">>, <<"1e00", "1ef9">>,
                          <<"363", "36f">>, <<"1dd3", "1de6">>,
                          <<"1d62", "1d65">>, <<"1dca">>, <<"2071">>,
                          <<"207f">>, <<"2090", "209c">>, <<"2c7c">> >>),
     type |-> "IDENTIFIER", role |-> "LATINLETTER", font |-> "NORMAL"],
    \* group 64, lines 2080-2084: operators (1391-1428)
    [set |->
     Chars(<<8740, 8742, 8761, 10160, 10175, 10178, 10186, 10977, 10187,
             10189, 10852, 10853, 10856, 10857, 10990, 10991, 10992, 10994,
             10995, 10997, 10998, 11003, 11005, 8967, 10177, 10192, 10195,
             10196, 10625, 10649, 10650, 10727, 10740, 10784, 10785>>),
     type |-> "OPERATOR", role |-> "UNKNOWN"],
    \* group 65, lines 2085-2091
    [set |->
     makeMultiInterval(<< <<"2605">>, <<"2606">>, <<"26aa">>, <<"26ab">>,
                          <<"2720", "274d">> >>),
     type |-> "OPERATOR", role |-> "UNKNOWN"],
    \* group 66, lines 2093-2097
    [set |->
     makeMultiInterval(<< <<"214A", "214C">>, <<"2705">>, <<"2713">>,
                          <<"2714">>, <<"2717">>, <<"2718">> >>),
     type |-> "IDENTIFIER", role |-> "UNKNOWN"],
    \* group 67, lines 2099-2106
    [set |->
     makeMultiInterval(<< <<"20">>, <<"a0">>, <<"ad">>, <<"2000", "200f">>,
                          <<"2028", "202f">>, <<"205f", "2060">>, <<"206a">>,
                          <<"206b">>, <<"206e">>, <<"206f">>, <<"feff">>,
                          <<"fff9", "fffb">> >>),
     type |-> "TEXT", role |-> "SPACE"]
    >>

\* The meaning { role: st.role || UNKNOWN, type: st.type || UNKNOWN,
\* font: st.font || UNKNOWN } of a group.
groupMeaning(st) ==
    [type |-> IF "type" \in DOMAIN st THEN st.type ELSE "UNKNOWN",
     role |-> IF "role" \in DOMAIN st THEN st.role ELSE "UNKNOWN",
     font |-> IF "font" \in DOMAIN st THEN st.font ELSE "UNKNOWN"]

\* SemanticMap.Meaning and SemanticMap.Secondary, Maps whose order is never
\* observed, are functions from their keys to their values; set on each key
\* of a set of keys:
setAll(m, keys, v) ==
    [k \in (DOMAIN m) \cup keys |-> IF k \in keys THEN v ELSE m[k]]

\* secondaryMap.secKey with the glyph left out of the key.
secKey_KindOnly(kind, char) == kind

\* secondaryMap.secKey
secKey(kind, char) ==
    IF char # <<>> THEN kind \o <<32>> \o char ELSE kind

\* secondaryMap.set(char, kind, annotation = '') on each char of an array:
\* super.set(this.secKey(kind, char), annotation || kind)
secondarySetAll(m, arr, kind, ann) ==
    setAll(m, {secKey(kind, arr[j]) : j \in 1..Len(arr)},
           IF ann # <<>> THEN ann ELSE kind)

\* The forEach of initMeaning over the set of one group, on Meaning, with
\* a glyph that already has a meaning keeping it.
meaningOfGroup_KeepFirst(m, st) ==
    [k \in (DOMAIN m) \cup Range(st.set) |->
        IF k \in DOMAIN m THEN m[k] ELSE groupMeaning(st)]

\* The forEach of initMeaning over the set of one group, on Meaning.
meaningOfGroup(m, st) == setAll(m, Range(st.set), groupMeaning(st))

\* The forEach of initMeaning on Secondary, with the registration of a
\* glyph by a group replacing the secondary annotations the glyph had.
secondaryOfGroup_Replace(m, st) ==
    LET old == {secKey(k, g) : k \in {ALLLETTERS, BAR, TILDE},
                              g \in Range(st.set)}
        kept == [k \in (DOMAIN m) \ old |-> m[k]]
    IN  IF "secondary" \in DOMAIN st
        THEN secondarySetAll(kept, st.set, st.secondary, <<>>)
        ELSE kept

\* The forEach of initMeaning over the set of one group, on Secondary.
secondaryOfGroup(m, st) ==
    IF "secondary" \in DOMAIN st
    THEN secondarySetAll(m, st.set, st.secondary, <<>>)
    ELSE m

\* The triple meaningMap.get answers for a symbol without a meaning.
unknownMeaning ==
    [type |-> "UNKNOWN", role |-> "UNKNOWN", font |-> "UNKNOWN"]

\* The value undefined where a meaning is expected.
undefinedMeaning == [undefined |-> TRUE]

\* meaningMap.get without the default: super.get(symbol)
meaningMapGet_NoDefault(m, sym) ==
    IF sym \in DOMAIN m THEN m[sym] ELSE undefinedMeaning

\* meaningMap.get: super.get(symbol) || { UNKNOWN, UNKNOWN, UNKNOWN }
meaningMapGet(m, sym) ==
    IF sym \in DOMAIN m THEN m[sym] ELSE unknownMeaning

\* The sets of the groups.
GroupSets ==
    [j \in 1..Len(symbolSetToSemantic_) |-> Range(symbolSetToSemantic_[j].set)]

\* The groups, in list order, that contain a glyph.
GroupsOf(g) == {j \in 1..Len(symbolSetToSemantic_) : g \in GroupSets[j]}

\* The glyphs of all groups, and those that occur in more than one group.
AllGlyphs == UNION {GroupSets[j] : j \in 1..Len(symbolSetToSemantic_)}

MultiGroupGlyphs == {g \in AllGlyphs : Cardinality(GroupsOf(g)) > 1}

\* The symbols looked up: the glyphs of more than one group, the first
\* glyph of every group, and four strings no group contains.
LookupSymbols ==
    MultiGroupGlyphs
        \cup {symbolSetToSemantic_[j].set[1] :
                  j \in 1..Len(symbolSetToSemantic_)}
        \cup {<<97>>, <<>>, <<128512>>, <<120, 121>>}

\* Alphabet, SemanticFont and the alphabets' intervals are imported.  A font
\* is written as the name of its member of SemanticFont, an alphabet name
\* as the pair of base and font, and Alphabet.INTERVALS as a function from
\* the alphabet names that have an interval to their unicode arrays.

\* Object.entries(SemanticFont), each entry given by its name.
SemanticFontNames == <<"BOLD", "FULLWIDTH", "NORMAL", "CIRCLED">>

\* The names of SemanticFont that are names of Alphabet.Embellish.
Embellish == {"CIRCLED"}

\* Alphabet.alphabetName(alphabet, font)
alphabetName(alphabet, font) == <<alphabet, font>>

\* The unicode array of n consecutive code points from first.
Interval(first, n) == [j \in 1..n |-> <<first + j - 1>>]

\* The lowercase Greek alphabet of the font NORMAL: nabla, alpha to omega,
\* the partial differential and six letter variants.
GreekSmallNormal ==
    <<<<8711>>>> \o Interval(945, 25)
        \o Chars(<<8706, 1013, 977, 1008, 981, 1009, 982>>)

\* The intervals every table has.
FixedIntervals ==
    [n \in {<<"LATINCAP", "NORMAL">>, <<"LATINSMALL", "NORMAL">>,
            <<"GREEKCAP", "NORMAL">>, <<"GREEKSMALL", "NORMAL">>,
            <<"DIGIT", "NORMAL">>,
            <<"LATINCAP", "BOLD">>, <<"LATINSMALL", "BOLD">>,
            <<"GREEKCAP", "BOLD">>, <<"DIGIT", "BOLD">>,
            <<"LATINCAP", "FULLWIDTH">>, <<"LATINSMALL", "FULLWIDTH">>,
            <<"DIGIT", "FULLWIDTH">>,
            <<"LATINCAP", "CIRCLED">>, <<"LATINSMALL", "CIRCLED">>,
            <<"DIGIT", "CIRCLED">>} |->
        CASE n = <<"LATINCAP", "NORMAL">> -> Interval(65, 26)
          [] n = <<"LATINSMALL", "NORMAL">> -> Interval(97, 26)
          [] n = <<"GREEKCAP", "NORMAL">> -> Interval(913, 25)
          [] n = <<"GREEKSMALL", "NORMAL">> -> GreekSmallNormal
          [] n = <<"DIGIT", "NORMAL">> -> Interval(48, 10)
          [] n = <<"LATINCAP", "BOLD">> -> Interval(119808, 26)
          [] n = <<"LATINSMALL", "BOLD">> -> Interval(119834, 26)
          [] n = <<"GREEKCAP", "BOLD">> -> Interval(120488, 25)
          [] n = <<"DIGIT", "BOLD">> -> Interval(120782, 10)
          [] n = <<"LATINCAP", "FULLWIDTH">> -> Interval(65313, 26)
          [] n = <<"LATINSMALL", "FULLWIDTH">> -> Interval(65345, 26)
          [] n = <<"DIGIT", "FULLWIDTH">> -> Interval(65296, 10)
          [] n = <<"LATINCAP", "CIRCLED">> -> Interval(9398, 26)
          [] n = <<"LATINSMALL", "CIRCLED">> -> Interval(9424, 26)
          [] n = <<"DIGIT", "CIRCLED">> -> Interval(9312, 9)]

\* The lengths tried for the lowercase Greek interval of the fonts BOLD
\* and CIRCLED; 0 stands for a font without the interval.
GreekSmallLengths == {0, 26, 27}

\* The tables tried for Alphabet.INTERVALS: the fixed intervals and, with
\* the lengths b and c, the lowercase Greek intervals of BOLD (from the
\* bold nabla on) and of CIRCLED.  No glyph is in two intervals.
IntervalTable(b, c) ==
    LET names == DOMAIN FixedIntervals
                    \cup (IF b > 0 THEN {<<"GREEKSMALL", "BOLD">>} ELSE {})
                    \cup (IF c > 0 THEN {<<"GREEKSMALL", "CIRCLED">>} ELSE {})
    IN  [n \in names |->
            IF n = <<"GREEKSMALL", "BOLD">> THEN Interval(120513, b)
            ELSE IF n = <<"GREEKSMALL", "CIRCLED">> THEN Interval(983040, c)
            ELSE FixedIntervals[n]]

IntervalTables ==
    {IntervalTable(b, c) : b \in GreekSmallLengths, c \in {0, 27}}

\* alphabet[pos] of an array of glyphs, pos counted from 0.
GlyphAt(alphabet, pos) ==
    IF pos + 1 \in 1..Len(alphabet) THEN alphabet[pos + 1] ELSE undefinedGlyph

RECURSIVE changeSemantics(_, _, _), addSecondaries(_, _, _),
          setSecondaries(_, _, _)

\* changeSemantics without the test character !== undefined.
changeSemantics_Unchecked(M, alphabet, change) ==
    IF change = <<>> THEN M
    ELSE changeSemantics(
             setAll(M, {GlyphAt(alphabet, change[1][1])}, change[1][2]),
             alphabet, Tail(change))

\* changeSemantics(alphabet, change) on Meaning; change is the sequence
\* Object.entries(change) of pairs <<position, meaning>>.
changeSemantics(M, alphabet, change) ==
    IF change = <<>> THEN M
    ELSE LET character == GlyphAt(alphabet, change[1][1])
         IN  changeSemantics(
                 IF character # undefinedGlyph
                 THEN setAll(M, {character}, change[1][2]) ELSE M,
                 alphabet, Tail(change))

\* addSecondaries(alphabet, change) on Secondary; change is the sequence
\* of pairs <<position, kind>>.
addSecondaries(S, alphabet, change) ==
    IF change = <<>> THEN S
    ELSE LET character == GlyphAt(alphabet, change[1][1])
         IN  addSecondaries(
                 IF character # undefinedGlyph
                 THEN secondarySetAll(S, <<character>>, change[1][2], <<>>)
                 ELSE S,
                 alphabet, Tail(change))

\* secondaries.forEach(sec => Secondary.set(x, sec)) for every x of the
\* unicode array.
setSecondaries(S, unicode, secondaries) ==
    IF secondaries = <<>> THEN S
    ELSE setSecondaries(secondarySetAll(S, unicode, secondaries[1], <<>>),
                        unicode, Tail(secondaries))

\* singleAlphabet on the pair ms of Meaning and Secondary.
singleAlphabet(ms, alphabet, type, role, font, semfont, secondaries, change, secondary) ==
    IF alphabetName(alphabet, font) \in DOMAIN INTERVALS
    THEN LET unicode == INTERVALS[alphabetName(alphabet, font)]
             M1 == setAll(ms.Meaning, Range(unicode),
                          [type |-> type, role |-> role, font |-> semfont])
             S1 == setSecondaries(ms.Secondary, unicode, secondaries)
         IN  [Meaning |-> changeSemantics(M1, unicode, change),
              Secondary |-> addSecondaries(S1, unicode, secondary)]
    ELSE ms

\* The body of the loop of alphabets for the entry name of SemanticFont.
alphabetsOfFont(ms, name) ==
    LET font == name
        emb == name \in Embellish
        semfont == IF emb THEN "UNKNOWN"
                   ELSE IF font = "FULLWIDTH" THEN "NORMAL" ELSE font
        prefixop == [type |-> "OPERATOR", role |-> "PREFIXOP",
                     font |-> semfont]
        ms1 == singleAlphabet(ms, "LATINCAP", "IDENTIFIER", "LATINLETTER",
                   font, semfont, <<ALLLETTERS>>, <<>>, <<>>)
        ms2 == singleAlphabet(ms1, "LATINSMALL", "IDENTIFIER", "LATINLETTER",
                   font, semfont, <<ALLLETTERS>>, <<>>, <<<<3, D>>>>)
        ms3 == singleAlphabet(ms2, "GREEKCAP", "IDENTIFIER", "GREEKLETTER",
                   font, semfont, <<ALLLETTERS>>, <<>>, <<>>)
        ms4 == singleAlphabet(ms3, "GREEKSMALL", "IDENTIFIER", "GREEKLETTER",
                   font, semfont, <<ALLLETTERS>>,
                   <<<<0, prefixop>>, <<26, prefixop>>>>, <<>>)
    IN  singleAlphabet(ms4, "DIGIT", "NUMBER", "INTEGER", font, semfont,
                       <<>>, <<>>, <<>>)

\* The module is loaded: Meaning and Secondary are new Maps, initMeaning()
\* is about to run.
RegistryInit ==
    /\ Meaning = <<>>
    /\ Secondary = <<>>
    /\ rpc = "initMeaning"
    /\ gi = 1
    /\ INTERVALS \in IntervalTables
    /\ ai = 1
    /\ symbol = <<>>
    /\ got = undefinedMeaning
    /\ secLog = <<>>
    /\ secArgs = <<>>
    /\ secGot = undefinedGlyph

RegistryIdle ==
    /\ Meaning = <<>>
    /\ Secondary = <<>>
    /\ rpc = "off"
    /\ gi = 0
    /\ INTERVALS = <<>>
    /\ ai = 0
    /\ symbol = <<>>
    /\ got = undefinedMeaning
    /\ secLog = <<>>
    /\ secArgs = <<>>
    /\ secGot = undefinedGlyph

\* One iteration of the loop of initMeaning: group st = symbolSetToSemantic_[i]
\* is registered; the loop ends after the last group.
InitMeaningGroup ==
    /\ rpc = "initMeaning"
    /\ gi <= Len(symbolSetToSemantic_)
    /\ LET st == symbolSetToSemantic_[gi]
       IN  /\ Meaning' = meaningOfGroup(Meaning, st)
           /\ Secondary' = secondaryOfGroup(Secondary, st)
    /\ gi' = gi + 1
    /\ rpc' = IF gi = Len(symbolSetToSemantic_) THEN "alphabets" ELSE rpc
    /\ UNCHANGED <<symbol, got, INTERVALS, ai, secLog, secArgs, secGot>>
    /\ UNCHANGED notRegistryVars

\* One iteration of the loop of alphabets: the five alphabets of the font
\* SemanticFontNames[ai]; the loop ends after the last font.
AlphabetsFont ==
    /\ rpc = "alphabets"
    /\ ai <= Len(SemanticFontNames)
    /\ LET ms == alphabetsOfFont([Meaning |-> Meaning,
                                  Secondary |-> Secondary],
                                 SemanticFontNames[ai])
       IN  /\ Meaning' = ms.Meaning
           /\ Secondary' = ms.Secondary
    /\ ai' = ai + 1
    /\ rpc' = IF ai = Len(SemanticFontNames) THEN "ready" ELSE rpc
    /\ UNCHANGED <<gi, symbol, got, INTERVALS, secLog, secArgs, secGot>>
    /\ UNCHANGED notRegistryVars

\* SemanticMap.Meaning.get(symbol), once the registry is initialized.
MeaningGet ==
    /\ rpc \in {"ready", "got"}
    /\ \E sym \in LookupSymbols :
          /\ symbol' = sym
          /\ got' = meaningMapGet(Meaning, sym)
    /\ rpc' = "got"
    /\ UNCHANGED <<Meaning, Secondary, gi, INTERVALS, ai, secLog, secArgs,
                   secGot>>
    /\ UNCHANGED notRegistryVars

RegistryNext ==
    \/ InitMeaningGroup
    \/ AlphabetsFont
    \/ MeaningGet

----------------------------------------------------------------------------
(* Calls of SemanticMap.Secondary.                                         *)

\* secondaryMap.set(char, kind, annotation = '')
secondaryMapSet(m, char, kind, ann) == secondarySetAll(m, <<char>>, kind, ann)

\* secondaryMap.get(char, kind): super.get(this.secKey(kind, char))
secondaryMapGet(m, char, kind) ==
    IF secKey(kind, char) \in DOMAIN m THEN m[secKey(kind, char)]
    ELSE undefinedGlyph

\* The number of Secondary.set calls.
MaxSets == 3

SecondaryKinds == {ALLLETTERS, D, BAR}

\* '' (the kind alone), 'a', ' ' and 'ar'.
SecondaryChars == {<<>>, <<97>>, <<32>>, <<97, 114>>}

SecondaryAnnotations == {<<>>, <<120>>}

\* Secondary is a new secondaryMap.
SecondaryInit ==
    /\ Meaning = <<>>
    /\ Secondary = <<>>
    /\ rpc = "secondary"
    /\ gi = 0
    /\ INTERVALS = <<>>
    /\ ai = 0
    /\ symbol = <<>>
    /\ got = undefinedMeaning
    /\ secLog = <<>>
    /\ secArgs = <<>>
    /\ secGot = undefinedGlyph

\* SemanticMap.Secondary.set(char, kind, annotation)
SecondarySet ==
    /\ rpc \in {"secondary", "secGot"}
    /\ gi < MaxSets
    /\ \E char \in SecondaryChars, kind \in SecondaryKinds,
          ann \in SecondaryAnnotations :
          /\ Secondary' = secondaryMapSet(Secondary, char, kind, ann)
          /\ secLog' = setAll(secLog, {<<kind, char>>},
                              IF ann # <<>> THEN ann ELSE kind)
    /\ gi' = gi + 1
    /\ rpc' = "secondary"
    /\ UNCHANGED <<Meaning, symbol, got, INTERVALS, ai, secArgs, secGot>>
    /\ UNCHANGED notRegistryVars

\* SemanticMap.Secondary.get(char, kind)
SecondaryGet ==
    /\ rpc \in {"secondary", "secGot"}
    /\ \E char \in SecondaryChars, kind \in SecondaryKinds :
          /\ secArgs' = <<kind, char>>
          /\ secGot' = secondaryMapGet(Secondary, char, kind)
    /\ rpc' = "secGot"
    /\ UNCHANGED <<Meaning, Secondary, gi, symbol, got, INTERVALS, ai,
                   secLog>>
    /\ UNCHANGED notRegistryVars

SecondaryNext ==
    \/ SecondarySet
    \/ SecondaryGet

----------------------------------------------------------------------------
(* sre.MmlHighlighter (unnamed/part_000).                                  *)
(*                                                                         *)
(* The document is a tree of element nodes: doc.kids[x] is the sequence of *)
(* the children of node x and doc.parent[x] its parent node, 0 (null) for  *)
(* a node without one.  The nodes 1..n are those of the document, node 1   *)
(* its root; the nodes above n are the mstyle elements that                *)
(* document.createElementNS gives, in the order of their creation.         *)

\* Largest number of nodes of a document, and the number of calls of
\* highlightNode.
MaxDomNodes == 3

MaxHighlights == 3

DomTrees ==
    UNION {{TreeOf(p, n) : p \in ParentVectors(n)} : n \in 2..MaxDomNodes}

\* The document of the tree t, with the mstyle elements to come.
DomOf(t) ==
    LET n == Len(t)
        all == 1..(n + MaxHighlights)
    IN  [kids |-> [x \in all |-> IF x <= n THEN t[x] ELSE <<>>],
         parent |-> [x \in all |->
                        IF x \in 2..n
                        THEN CHOOSE p \in 1..n :
                                 \E j \in 1..Len(t[p]) : t[p][j] = x
                        ELSE 0]]

\* x taken out of the children of its parent, as the insertion of a node
\* that has a parent does first.
Detach(d, x) ==
    IF d.parent[x] = 0 THEN d
    ELSE [kids |-> [d.kids EXCEPT ![d.parent[x]] =
                       SelectSeq(@, LAMBDA y : y # x)],
          parent |-> [d.parent EXCEPT ![x] = 0]]

\* p.replaceChild(new, old)
replaceChild(d, p, new, old) ==
    LET d1 == Detach(d, new)
    IN  [kids |-> [d1.kids EXCEPT ![p] =
                      [j \in 1..Len(@) |-> IF @[j] = old THEN new ELSE @[j]]],
         parent |-> [d1.parent EXCEPT ![new] = p, ![old] = 0]]

\* p.appendChild(x)
appendChild(d, p, x) ==
    LET d1 == Detach(d, x)
    IN  [kids |-> [d1.kids EXCEPT ![p] = Append(@, x)],
         parent |-> [d1.parent EXCEPT ![x] = p]]

\* x.firstElementChild, 0 for null
firstElementChild(d, x) ==
    IF Len(d.kids[x]) > 0 THEN d.kids[x][1] ELSE 0

HighlightIdle ==
    /\ doc = <<>>
    /\ doc0 = <<>>
    /\ infos = {}
    /\ styles = 0
    /\ hlog = <<>>
    /\ hpc = "off"

HighlightInit ==
    /\ doc \in {DomOf(t) : t \in DomTrees}
    /\ doc0 = doc
    /\ infos = {}
    /\ styles = 0
    /\ hlog = <<>>
    /\ hpc = "highlight"

\* The element nodes of the document that have a parent.
Highlightable == {x \in DOMAIN doc.parent : doc.parent[x] # 0}

\* highlightNode taking the node out of its parent and appending the
\* mstyle element to the parent's children.
HighlightNode_AppendWrapper ==
    /\ hpc = "highlight"
    /\ styles < MaxHighlights
    /\ \E node \in Highlightable :
          LET style == Len(doc0.kids) - MaxHighlights + styles + 1
              p == doc.parent[node]
              d1 == appendChild(doc, p, style)
          IN  /\ doc' = appendChild(d1, style, node)
              /\ infos' = infos \cup {style}
              /\ hlog' = Append(hlog, node)
    /\ styles' = styles + 1
    /\ UNCHANGED <<doc0, hpc>>
    /\ UNCHANGED notHighlightVars

\* highlightNode(node): node.parentNode.replaceChild(style, node);
\* style.appendChild(node); return {node: style}
HighlightNode ==
    /\ hpc = "highlight"
    /\ styles < MaxHighlights
    /\ \E node \in Highlightable :
          LET style == Len(doc0.kids) - MaxHighlights + styles + 1
              d1 == replaceChild(doc, doc.parent[node], style, node)
          IN  /\ doc' = appendChild(d1, style, node)
              /\ infos' = infos \cup {style}
              /\ hlog' = Append(hlog, node)
    /\ styles' = styles + 1
    /\ UNCHANGED <<doc0, hpc>>
    /\ UNCHANGED notHighlightVars

\* unhighlightNode(info), for an info not yet given to it:
\* node.parentNode.replaceChild(node.firstElementChild, node).  A null
\* parentNode or a null firstElementChild makes the call throw.
UnhighlightNode ==
    /\ hpc \in {"highlight", "unhighlight"}
    /\ \E node \in infos :
          /\ infos' = infos \ {node}
          /\ IF doc.parent[node] = 0 \/ firstElementChild(doc, node) = 0
             THEN /\ hpc' = "threw"
                  /\ doc' = doc
             ELSE /\ hpc' = "unhighlight"
                  /\ doc' = replaceChild(doc, doc.parent[node],
                                         firstElementChild(doc, node), node)
    /\ UNCHANGED <<doc0, styles, hlog>>
    /\ UNCHANGED notHighlightVars

HighlightNext ==
    \/ HighlightNode
    \/ UnhighlightNode

----------------------------------------------------------------------------
(* Specifications.                                                         *)

InitNumbers ==
    NumbersInit /\ TreeIdle /\ FencesIdle /\ RegistryIdle /\ HighlightIdle

SpecNumbers == InitNumbers /\ [][NumbersNext]_vars

InitVisit ==
    VisitInit /\ NumbersIdle /\ FencesIdle /\ RegistryIdle /\ HighlightIdle

SpecVisit == InitVisit /\ [][VisitNext]_vars

InitAnnotate ==
    AnnotateInit /\ NumbersIdle /\ FencesIdle /\ RegistryIdle /\ HighlightIdle

SpecAnnotate == InitAnnotate /\ [][AnnotateNext]_vars

\* A call of annotate that has begun keeps running: JavaScript runs it to
\* completion.
SpecAnnotateLive ==
    InitAnnotate /\ [][AnnotateNext]_vars /\ WF_vars(AnnotateStep)

InitFences ==
    FencesInit /\ NumbersIdle /\ TreeIdle /\ RegistryIdle /\ HighlightIdle

SpecFences == InitFences /\ [][FencesNext]_vars

InitRegistry ==
    RegistryInit /\ NumbersIdle /\ TreeIdle /\ FencesIdle /\ HighlightIdle

SpecRegistry == InitRegistry /\ [][RegistryNext]_vars

InitSecondary ==
    SecondaryInit /\ NumbersIdle /\ TreeIdle /\ FencesIdle /\ HighlightIdle

SpecSecondary == InitSecondary /\ [][SecondaryNext]_vars

InitTraverse == InitVisit \/ InitAnnotate

InitHighlight ==
    HighlightInit /\ NumbersIdle /\ TreeIdle /\ FencesIdle /\ RegistryIdle

SpecHighlight == InitHighlight /\ [][HighlightNext]_vars

SpecTraverse == InitTraverse /\ [][TraverseNext]_vars

InitGrammar ==
    GrammarInit /\ TreeIdle /\ FencesIdle /\ RegistryIdle /\ HighlightIdle

SpecGrammar == InitGrammar /\ [][GrammarNext]_vars

\* All parts: a behaviour exercises one of them.
Init ==
    \/ InitNumbers
    \/ InitVisit
    \/ InitAnnotate
    \/ InitFences
    \/ InitRegistry
    \/ InitGrammar
    \/ InitSecondary
    \/ InitHighlight

Next ==
    \/ NumbersNext
    \/ VisitNext
    \/ AnnotateNext
    \/ FencesNext
    \/ RegistryNext
    \/ GrammarNext
    \/ SecondaryNext
    \/ HighlightNext

Spec == Init /\ [][Next]_vars

----------------------------------------------------------------------------
(* Properties of the number engine.                                        *)

\* The literal decimal digit string of a number.
DecimalString(n) == DigitString(DigitsFrom(n, Len(n)))

\* n >= 10^e: n has more than e decimal digits.
GeqPow10(n, e) == Len(DigitsFrom(n, Len(n))) > e

\* The hundreds/tens/ones grammar of Spanish for 0..999.
RECURSIVE RefWords(_)
RefWords(n) ==
    IF n = 0 THEN "cero"
    ELSE IF n <= 29 THEN onesNumbers_[n + 1]
    ELSE IF n <= 99
    THEN tensNumbers_[(n \div 10) + 1]
         \o (IF n % 10 # 0 THEN " y " \o onesNumbers_[(n % 10) + 1] ELSE "")
    ELSE IF n = 100 THEN "cien"
    ELSE IF n <= 199 THEN "ciento " \o RefWords(n - 100)
    ELSE hundredsNumbers_[(n \div 100) + 1]
         \o (IF n % 100 # 0 THEN " " \o RefWords(n % 100) ELSE "")

\* C7: for every n in 0..999, numberToWords(n) is the word of the
\* hundreds/tens/ones grammar: "cero" for 0, the table word for 1..29
\* ("veintiuno" for 21), tens word [" y " ones word] for 30..99, "cien" for
\* 100, "ciento" and the remainder for 101..199, the hundreds word and the
\* remainder, when non-zero, for 200..999.
C7_WordsBelowThousand ==
    (callOp = "numberToWords" /\ Len(num) = 1) =>
        /\ result = RefWords(num[1])
        /\ (num[1] = 21 => result = "veintiuno")
        /\ (num[1] = 100 => result = "cien")
        /\ (num[1] = 101 => result = "ciento uno")
        /\ (num[1] = 999 => result = "novecientos noventa y nueve")

C7_Witness ==
    callOp = "numberToWords" /\ num = <<100>> /\ result = "cien"

\* The scale word is 'mil' or begins with 'mil '.
IsMilWord(w) == w = "mil" \/ (Len(w) > 4 /\ SubSeq(w, 1, 4) = "mil ")

StartsWith(s, pre) == Len(s) >= Len(pre) /\ SubSeq(s, 1, Len(pre)) = pre

\* C8: when the leading period, above the units period, has value exactly
\* 1, numberToWords omits the leading 'one' before a scale word that is
\* 'mil' or begins with 'mil ' (1000 gives "mil", 1500 gives "mil
\* quinientos") and emits "un" before every other scale word (10^6 gives
\* "un millón").
C8_LeadingOne ==
    (/\ callOp = "numberToWords"
     /\ Len(num) >= 2
     /\ ~GeqPow10(num, 36)
     /\ num[Len(num)] = 1) =>
        LET large == largeNumbers_[Len(num)]
        IN  /\ IsMilWord(large) => (StartsWith(result, large)
                                     /\ ~StartsWith(result, "un "))
            /\ ~IsMilWord(large) => StartsWith(result, "un " \o large)
            /\ (num = <<0, 1>> => result = "mil")
            /\ (num = <<500, 1>> => result = "mil quinientos")
            /\ (num = <<0, 0, 1>> => result = "un millón")

IsDigitChar(c) == c \in {"0", "1", "2", "3", "4", "5", "6", "7", "8", "9"}

\* C9: numberToWords(n) is the literal decimal digit string of n for every
\* n >= 10^36 and a word string (no digit in it, not undefined, no error
\* from an index outside the scale-name table) for every n below.
C9_CeilingFallback ==
    callOp = "numberToWords" =>
        IF GeqPow10(num, 36) THEN result = DecimalString(num)
        ELSE /\ result \notin {UNDEFINED, TYPEERROR, ""}
             /\ \A i \in 1..Len(result) : ~IsDigitChar(CharAt(result, i))

\* C10: for every n > 1999, numberToOrdinal(n, plural) is the decimal
\* numeral of n followed by "a", whatever the plural flag and the gender.
C10_OrdinalCeiling ==
    (callOp = "numberToOrdinal" /\ Greater(num, 1999)) =>
        result = DecimalString(num) \o "a"

\* C11: for every n >= 0 and either plural flag, numberToOrdinal(n, plural)
\* returns a string: it is never undefined and nothing is thrown.
C11_OrdinalDefined ==
    callOp = "numberToOrdinal" => result \notin {UNDEFINED, TYPEERROR}

\* The words of the ordinal tables, and the word for 1000.
OrdinalWords ==
    Range(onesOrdinals_) \cup Range(tensOrdinals_)
        \cup Range(hundredsOrdinals_) \cup {"milésima"}

\* s is one ordinal word, or ordinal words with one space between each
\* two of them.
RECURSIVE IsOrdinalPhrase(_)
IsOrdinalPhrase(s) ==
    \E w \in OrdinalWords :
        /\ StartsWith(s, w)
        /\ \/ Len(s) = Len(w)
           \/ /\ Len(s) > Len(w) + 1
              /\ CharAt(s, Len(w) + 1) = " "
              /\ IsOrdinalPhrase(SubSeq(s, Len(w) + 2, Len(s)))

\* C22: for every n in 1..1999, numberToOrdinal(n, plural) is a non-empty
\* sequence of words of the ordinal tables joined by single spaces, with
\* no space at either end and no empty component, also for the multiples
\* of 100 and for 1000.
C22_OrdinalPhrase ==
    (/\ callOp = "numberToOrdinal"
     /\ ~IsZero(num)
     /\ ~Greater(num, 1999)) =>
        /\ result \notin {UNDEFINED, TYPEERROR, ""}
        /\ IsOrdinalPhrase(result)

\* C12: simpleOrdinal(n) is the decimal numeral of n followed by "a" when
\* the grammar's gender is "female" at the time of the call and by "o" for
\* every other value, unset included; each call uses the value current at
\* its own time.
C12_SimpleOrdinal ==
    callOp = "simpleOrdinal" =>
        result = DecimalString(num)
                     \o (IF gender = "female" THEN "a" ELSE "o")

EndsWith(s, c) == Len(s) > 0 /\ CharAt(s, Len(s)) = c

\* C15: simpleOrdinal gives the suffix "a" only when the gender was set
\* to "female" within the generation call it is called in: a gender set
\* during an earlier generation call is not observed.
C15_ContextCallScoped ==
    callOp = "simpleOrdinal" =>
        /\ EndsWith(result, "a") <=> genderSet = "female"
        /\ EndsWith(result, "o") <=> genderSet # "female"

\* The call before set the gender to "female", this one did not set it,
\* and simpleOrdinal(1) is "1o".
C15_Witness ==
    /\ callOp = "simpleOrdinal"
    /\ generations >= 2
    /\ prevSet = "female"
    /\ genderSet = UNDEFINED
    /\ num = <<1>>
    /\ result = "1o"

\* The plural of a scale word that ends in "ón"; "" for a word that does
\* not.
PluralForm(w) ==
    IF Len(w) >= 2 /\ SubSeq(w, Len(w) - 1, Len(w)) = "ón"
    THEN SubSeq(w, 1, Len(w) - 2) \o "ones" ELSE ""

\* s begins with the word or words w: w, then a space or the end of s.
BeginsWithWord(s, w) ==
    /\ StartsWith(s, w)
    /\ Len(s) = Len(w) \/ CharAt(s, Len(w) + 1) = " "

\* C19: the leading period, at a scale position p >= 1 below the ceiling,
\* is followed by the singular of the scale word of p when its value is 1
\* and by the plural when its value is greater (10^6 gives "un millón",
\* 2 * 10^6 gives "dos millones"); "mil" and the words that begin with
\* "mil " have one form.  A leading "un" is left to C8.
C19_ScaleWordNumber ==
    (/\ callOp = "numberToWords"
     /\ Len(num) >= 2
     /\ ~GeqPow10(num, 36)) =>
        LET hi == num[Len(num)]
            word == largeNumbers_[Len(num)]
            afterUn == IF StartsWith(result, "un ")
                       THEN SubSeq(result, 4, Len(result)) ELSE result
        IN  /\ hi = 1 => BeginsWithWord(afterUn, word)
            /\ (hi > 1 /\ IsMilWord(word)) =>
                   BeginsWithWord(result, RefWords(hi) \o " " \o word)
            /\ (hi > 1 /\ ~IsMilWord(word)) =>
                   /\ PluralForm(word) # ""
                   /\ BeginsWithWord(result,
                          RefWords(hi) \o " " \o PluralForm(word))
            /\ num = <<0, 0, 1>> => result = "un millón"
            /\ num = <<0, 0, 2>> => result = "dos millones"


----------------------------------------------------------------------------
(* Properties of sre.SemanticVisitor.                                      *)

Nodes == DOMAIN childNodes

IsLeaf(n) == Len(childNodes[n]) = 0

LastChild(n) == childNodes[n][Len(childNodes[n])]

\* The info with which visit was called at node n (n was visited).
InfoIn(n) == calls[CHOOSE j \in 1..Len(calls) : calls[j].node = n].info

\* C4: for every node with at least one child, the value visit returns at
\* the node is the value the recursive visit of its last child returned.
C4_ReturnsLastChild ==
    tpc \in {"visit", "done"} =>
        \A n \in Nodes :
            (returned[n] # NoValue /\ ~IsLeaf(n)) =>
                returned[n] = returned[LastChild(n)]

C4_Witness ==
    /\ tpc = "done"
    /\ Len(childNodes[1]) = 3
    /\ fkind = "count"
    /\ returned[1] = returned[4]
    /\ returned[1] # calls[1].res

\* C5 as amended: for every node with no children, visit(node, info)
\* returns func(node, info), the pair of the node's annotation and the info
\* that func propagates.
C5_LeafReturnsFuncResult ==
    tpc \in {"visit", "done"} =>
        \A n \in Nodes :
            (returned[n] # NoValue /\ IsLeaf(n)) =>
                returned[n] = VisitorFunc(fkind, n, InfoIn(n))

C5_Witness ==
    /\ tpc = "done"
    /\ fkind = "count"
    /\ \E n \in Nodes : IsLeaf(n) /\ returned[n] = <<InfoIn(n), InfoIn(n) + 1>>

\* C5 as claimed: for every node with no children, the info that
\* visit(node, info) returns is the input info.
C5_LeafReturnsInputInfo ==
    tpc \in {"visit", "done"} =>
        \A n \in Nodes :
            (returned[n] # NoValue /\ IsLeaf(n)) =>
                returned[n][2] = InfoIn(n)

\* The parent of a node other than the root, and the node's place among
\* the children of its parent.
ParentOf(c) ==
    CHOOSE p \in Nodes : \E j \in 1..Len(childNodes[p]) : childNodes[p][j] = c

PlaceOf(c) ==
    CHOOSE j \in 1..Len(childNodes[ParentOf(c)]) :
        childNodes[ParentOf(c)][j] = c

\* The application of func at node n (n was visited).
CallAt(n) == calls[CHOOSE j \in 1..Len(calls) : calls[j].node = n]

\* C17: the first child of a node n is visited with the info that func
\* propagated at n; every later child is visited with the info component
\* of the value the visit of the child before it returned.
C17_InfoThreadsThroughChildren ==
    tpc \in {"visit", "done"} =>
        \A j \in 1..Len(calls) :
            LET c == calls[j].node
            IN  c # 1 =>
                    calls[j].info =
                        IF PlaceOf(c) = 1
                        THEN CallAt(ParentOf(c)).res[2]
                        ELSE returned[childNodes[ParentOf(c)]
                                                [PlaceOf(c) - 1]][2]

\* A second child was visited with the info its elder sibling returned,
\* which is not the info func propagated at the parent.
C17_Witness ==
    /\ tpc = "done"
    /\ fkind = "count"
    /\ throwAt = 0
    /\ Len(childNodes[1]) = 2
    /\ CallAt(3).info = returned[2][2]
    /\ CallAt(3).info # CallAt(1).res[2]

\* C17 as stated: every child of a node n is visited with the info that
\* func propagated at n itself.
C17_ChildrenGetParentInfo ==
    tpc \in {"visit", "done"} =>
        \A j \in 1..Len(calls) :
            calls[j].node # 1 =>
                calls[j].info = CallAt(ParentOf(calls[j].node)).res[2]

----------------------------------------------------------------------------
(* Traversal orders.                                                       *)

RECURSIVE PreOrder(_), PreOrderFrom(_, _), PostOrder(_), PostOrderFrom(_, _)

\* The nodes below and at n, a node before its children.
PreOrder(n) == <<n>> \o PreOrderFrom(n, 1)

PreOrderFrom(n, j) ==
    IF j > Len(childNodes[n]) THEN <<>>
    ELSE PreOrder(childNodes[n][j]) \o PreOrderFrom(n, j + 1)

\* The nodes below and at n, a node after its children.
PostOrder(n) == PostOrderFrom(n, 1) \o <<n>>

PostOrderFrom(n, j) ==
    IF j > Len(childNodes[n]) THEN <<>>
    ELSE PostOrder(childNodes[n][j]) \o PostOrderFrom(n, j + 1)

PositionIn(q, x) == CHOOSE j \in 1..Len(q) : q[j] = x

CalledNodes == [j \in 1..Len(calls) |-> calls[j].node]

\* C13: when func throws at a node, the error leaves the top-level visit
\* or annotate, which does not complete.  func has been applied to the
\* nodes before the failing one in traversal order and to the failing node,
\* once each, and to no node after it; the nodes before it carry the
\* annotations func gave them, the failing node and the nodes after it
\* carry none.
C13_ThrowPropagates ==
    /\ tpc = "done" => throwAt = 0
    /\ tpc \in {"visitThrew", "annotateThrew"} =>
          LET order == IF tpc = "visitThrew" THEN PreOrder(1)
                       ELSE PostOrder(1)
              k == PositionIn(order, throwAt)
          IN  /\ stack = <<>>
              /\ CalledNodes = SubSeq(order, 1, k)
              /\ \A j \in 1..k : calls[j].ok <=> j < k
              /\ \A j \in 1..(k - 1) :
                     annotation[order[j]] =
                         addAnnotation(<<>>, fkind,
                             IF tpc = "visitThrew" THEN calls[j].res[1]
                             ELSE calls[j].res)
              /\ \A j \in k..Len(order) : annotation[order[j]] = <<>>

\* func threw at the third of four nodes of a visit: the second node is
\* annotated, the fourth is not.
C13_Witness ==
    /\ tpc = "visitThrew"
    /\ throwAt = 3
    /\ Len(childNodes) = 4
    /\ Len(childNodes[1]) = 3
    /\ annotation[2] # <<>>
    /\ annotation[3] = <<>>
    /\ annotation[4] = <<>>
    /\ Len(calls) = 3

----------------------------------------------------------------------------
(* Properties of sre.SemanticAnnotator.                                    *)

\* The statement of C6 for every deterministic function: a second annotate
\* with the same annotator over the unchanged, annotated tree leaves every
\* node's annotation map as it was after the first run.
C6_AnnotateIdempotent ==
    (tpc = "done" /\ run = 2) => annotation = snap

\* The value of func at a node does not depend on the annotation the node
\* itself carries under the domain: it is the same for the node without
\* one and with any one.
OwnAnnotationIgnored ==
    \A n \in Nodes :
        \A v \in 0..(Cardinality(Nodes) + 2) :
            AnnotatorFunc([annotation EXCEPT ![n] = addAnnotation(@, fkind, v)],
                          fkind, n)
                = AnnotatorFunc([annotation EXCEPT ![n] = <<>>], fkind, n)

\* C6: for a function whose value at a node depends on the node's content
\* and on the annotations of the nodes below it, not on the annotation the
\* node itself carries under the domain, a second annotate with the same
\* annotator over the unchanged, annotated tree leaves every node's
\* annotation map as it was after the first run.
C6_IdempotentWhenOwnIgnored ==
    (tpc = "done" /\ run = 2 /\ OwnAnnotationIgnored) => annotation = snap

C6_Witness ==
    /\ tpc = "done"
    /\ run = 2
    /\ fkind = "size"
    /\ OwnAnnotationIgnored
    /\ Len(childNodes[1]) >= 2
    /\ Len(calls) = 2 * Cardinality(Nodes)
    /\ annotation[1]["size"] = Cardinality(Nodes)

\* The nodes to which func was applied in run r, in order.
CalledInRun(r) ==
    LET cs == SelectSeq(calls, LAMBDA c : c.run = r)
    IN  [j \in 1..Len(cs) |-> cs[j].node]

IsPrefix(p, q) == Len(p) <= Len(q) /\ p = SubSeq(q, 1, Len(p))

\* While annotate runs: func has been applied in post-order, and when it
\* is about to be applied to a node, every node below that node carries an
\* annotation of the domain.  When annotate has returned, func has been
\* applied in each run to every node once, in post-order.
BottomUpOnce ==
    /\ tpc = "annotate" =>
          /\ IsPrefix(CalledInRun(run), PostOrder(1))
          /\ Top.i = Len(childNodes[Top.node]) =>
                 \A d \in Range(PostOrder(Top.node)) \ {Top.node} :
                     fkind \in DOMAIN annotation[d]
    /\ tpc = "done" =>
          \A r \in 1..run : CalledInRun(r) = PostOrder(1)

\* C18: annotate applies func to a node after annotate has completed on
\* all its children, in child order, so that every node below it carries
\* its annotation; func is applied once to every node, and a call of
\* annotate ends (by returning, or by the error of a func that throws).
C18_BottomUpOnceTerminates ==
    /\ []BottomUpOnce
    /\ (tpc = "annotate") ~> (tpc \in {"done", "annotateThrew"})

\* annotate has returned on a tree whose post-order is not the order of
\* the node numbers.
C18_Witness ==
    /\ tpc = "done"
    /\ run = 1
    /\ throwAt = 0
    /\ Len(childNodes) = 4
    /\ CalledInRun(1) = <<4, 2, 3, 1>>
    /\ fkind = "height"
    /\ annotation[1]["height"] = 3

\* C21: visit applies func to the nodes in pre-order; the info passed to a
\* node other than the root is the second component of func's result on
\* the node right before it in pre-order; the value visit returns at the
\* root is func's result on the last node in pre-order.
C21_PreOrderThreading ==
    tpc \in {"visit", "done"} =>
        /\ IsPrefix(CalledNodes, PreOrder(1))
        /\ \A j \in 2..Len(calls) : calls[j].info = calls[j - 1].res[2]
        /\ tpc = "done" =>
               /\ CalledNodes = PreOrder(1)
               /\ returned[1] = calls[Len(calls)].res

\* visit has returned on a tree whose pre-order is not the order of the
\* node numbers; the second child of the root got the info that func
\* produced on the child of the first.
C21_Witness ==
    /\ tpc = "done"
    /\ throwAt = 0
    /\ fkind = "count"
    /\ Len(childNodes) = 4
    /\ CalledNodes = <<1, 2, 4, 3>>
    /\ CallAt(3).info = CallAt(4).res[2]
    /\ CallAt(3).info # CallAt(1).res[2]
    /\ returned[1] = CallAt(3).res

----------------------------------------------------------------------------
(* Properties of SemanticMap.Secondary.                                    *)

\* C14: Secondary behaves as a map keyed by the pair (kind, glyph), the
\* glyph being '' for the kind alone: Secondary.get(char, kind) is the value
\* set last for exactly that pair, and undefined when that pair was never
\* set.  An entry of a kind alone and an entry of that kind with a glyph
\* are different pairs and do not overwrite each other.
C14_KeyedByKindAndGlyph ==
    rpc = "secGot" =>
        secGot = IF secArgs \in DOMAIN secLog THEN secLog[secArgs]
                 ELSE undefinedGlyph

\* 'bar' was set, and 'bar' with the glyph 'a' to 'x': get('a', 'bar') is
\* 'x' while the entry of the kind alone is 'bar'; and 'd' with 'a' was
\* not set.
C14_Witness ==
    /\ rpc = "secGot"
    /\ secArgs = <<BAR, <<97>>>>
    /\ secGot = <<120>>
    /\ <<BAR, <<>> >> \in DOMAIN secLog
    /\ secondaryMapGet(Secondary, <<>>, BAR) = BAR
    /\ secondaryMapGet(Secondary, <<97>>, D) = undefinedGlyph

----------------------------------------------------------------------------
(* Properties of sre.MmlHighlighter.                                       *)

\* C23: after highlightNode calls on element nodes that have a parent,
\* followed by unhighlightNode on each returned info once, in any order,
\* the document is as it was before the first call: every node has its
\* parent and its children of before, in their order, and no mstyle
\* element is in the document; no call throws.
C23_UnhighlightRestores ==
    /\ hpc # "threw"
    /\ (hpc = "unhighlight" /\ infos = {}) => doc = doc0

\* Three highlights, of a first child of the root that has a sibling, of
\* the same node again and of the mstyle element of the first call, have
\* all been undone.
C23_Witness ==
    /\ hpc = "unhighlight"
    /\ infos = {}
    /\ styles = 3
    /\ Len(doc0.kids) = 3 + MaxHighlights
    /\ doc0.kids[1] = <<2, 3>>
    /\ hlog = <<2, 2, 4>>
    /\ doc.kids[1] = <<2, 3>>

----------------------------------------------------------------------------
(* Properties of the fence matching predicate.                             *)

\* (a, b) is an entry of a pairing table.
InTable(m, a, b) == \E j \in 1..Len(m) : m[j] = <<a, b>>

\* g is in the neutral or in the metric fence set.
IsNeutralOrMetric(g) == g \in Range(neutralFences) \cup Range(metricFences)

\* C1, as the code has it: for open in the neutral or metric fence set,
\* isMatchingFence(open, close) is true iff open = close; for every other
\* open it is true iff (open, close) is an entry of FencesHoriz or of
\* FencesVert.
C1_NeutralBeforeTables ==
    matched # <<>> =>
        matched[1] = IF IsNeutralOrMetric(openArg)
                     THEN openArg = closeArg
                     ELSE \/ InTable(FencesHoriz, openArg, closeArg)
                          \/ InTable(FencesVert, openArg, closeArg)

\* The pair of FencesHoriz whose opening glyph is also a neutral fence has
\* been tested and does not match.
C1_Witness ==
    /\ openArg = <<9144>>
    /\ closeArg = <<9145>>
    /\ InTable(FencesHoriz, openArg, closeArg)
    /\ IsNeutralOrMetric(openArg)
    /\ matched = <<FALSE>>

\* C1 as stated: isMatchingFence(open, close) is true iff (open, close) is
\* an entry of FencesHoriz or FencesVert, or open = close and open is in the
\* neutral or metric fence set.
C1_TableOrSelf ==
    matched # <<>> =>
        matched[1] = \/ InTable(FencesHoriz, openArg, closeArg)
                     \/ InTable(FencesVert, openArg, closeArg)
                     \/ /\ openArg = closeArg
                        /\ IsNeutralOrMetric(openArg)

\* C16: the fence pairings are ordered: isMatchingFence(a, b) looks b up
\* under a.  For two different glyphs a and b, isMatchingFence(a, b) and
\* isMatchingFence(b, a) are never both true; for a = b the two calls are
\* the same call.
C16_PairingDirected ==
    (matched # <<>> /\ matchedBack # <<>>) =>
        IF openArg = closeArg THEN matched = matchedBack
        ELSE ~(matched[1] /\ matchedBack[1])

\* isMatchingFence('(', ')') is true and isMatchingFence(')', '(') false.
C16_Witness ==
    /\ openArg = <<40>>
    /\ closeArg = <<41>>
    /\ matched = <<TRUE>>
    /\ matchedBack = <<FALSE>>

\* C16 as stated: isMatchingFence(a, b) = isMatchingFence(b, a) for every
\* pair of glyphs.
C16_Symmetric ==
    (matched # <<>> /\ matchedBack # <<>>) => matched = matchedBack

----------------------------------------------------------------------------
(* Properties of the symbol meaning registry.                              *)

\* C2: after initialization, Meaning.get(symbol) of a symbol that was never
\* registered is the triple UNKNOWN, UNKNOWN, UNKNOWN, never undefined;
\* of a registered symbol it is the registered triple.
C2_GetDefaultsToUnknown ==
    rpc = "got" =>
        /\ got # undefinedMeaning
        /\ symbol \notin DOMAIN Meaning => got = unknownMeaning
        /\ symbol \in DOMAIN Meaning => got = Meaning[symbol]

\* A symbol of no group has been looked up and got the UNKNOWN triple.
C2_Witness ==
    /\ rpc = "got"
    /\ symbol = <<128512>>
    /\ symbol \notin AllGlyphs
    /\ got = unknownMeaning

\* The last group, in list order, that contains a glyph.
LastGroupOf(g) ==
    CHOOSE j \in GroupsOf(g) : \A k \in GroupsOf(g) : k <= j

\* C3: after initMeaning, every glyph of more than one group has the type,
\* role and font (UNKNOWN when the group gives none) of the last group that
\* contains it; a glyph of dashes (group 12) and subtractions (group 30) is
\* OPERATOR / SUBTRACTION, a glyph of the left or right fences (groups 16,
\* 17) and of the neutral fences (group 20) has role NEUTRAL.
C3_LastGroupWins ==
    (rpc = "alphabets" /\ ai = 1) =>
        /\ \A g \in MultiGroupGlyphs :
              Meaning[g] = groupMeaning(symbolSetToSemantic_[LastGroupOf(g)])
        /\ \A g \in GroupSets[12] \cap GroupSets[30] :
              Meaning[g].type = "OPERATOR" /\ Meaning[g].role = "SUBTRACTION"
        /\ \A g \in (GroupSets[16] \cup GroupSets[17]) \cap GroupSets[20] :
              Meaning[g].role = "NEUTRAL"

\* initMeaning has run; the hyphen-minus, a glyph of dashes and of
\* subtractions, and the left vertical box line, a left and a neutral
\* fence, are registered.
C3_Witness ==
    /\ rpc = "alphabets"
    /\ ai = 1
    /\ <<45>> \in GroupSets[12] \cap GroupSets[30]
    /\ <<9144>> \in GroupSets[16] \cap GroupSets[20]
    /\ Meaning[<<45>>] =
           [type |-> "OPERATOR", role |-> "SUBTRACTION", font |-> "UNKNOWN"]
    /\ Meaning[<<9144>>].role = "NEUTRAL"

\* The semantic font alphabets gives the glyphs of the font name.
SemFontOf(name) ==
    IF name \in Embellish THEN "UNKNOWN"
    ELSE IF name = "FULLWIDTH" THEN "NORMAL" ELSE name

\* C20: after alphabets, for every font with a lowercase Greek interval,
\* the glyphs at the indices 0 and 26 of the interval are OPERATOR /
\* PREFIXOP and the glyphs at every other index IDENTIFIER / GREEKLETTER,
\* all with the semantic font of the style; where the interval is shorter
\* than an overridden position, the override sets nothing: no key is added
\* for an undefined glyph.
C20_GreekSmallOverrides ==
    rpc \in {"ready", "got"} =>
        /\ \A j \in 1..Len(SemanticFontNames) :
              LET name == SemanticFontNames[j]
                  an == alphabetName("GREEKSMALL", name)
              IN  an \in DOMAIN INTERVALS =>
                      \A pos \in 0..(Len(INTERVALS[an]) - 1) :
                          Meaning[GlyphAt(INTERVALS[an], pos)] =
                              IF pos \in {0, 26}
                              THEN [type |-> "OPERATOR", role |-> "PREFIXOP",
                                    font |-> SemFontOf(name)]
                              ELSE [type |-> "IDENTIFIER",
                                    role |-> "GREEKLETTER",
                                    font |-> SemFontOf(name)]
        /\ undefinedGlyph \notin DOMAIN Meaning

\* alphabets has run with a bold lowercase Greek interval of 26 glyphs,
\* which has the index 0 and not the index 26: bold nabla is a prefix
\* operator, the last glyph of the interval a Greek letter; in the font
\* NORMAL nabla and the partial differential are prefix operators.
C20_Witness ==
    /\ rpc = "ready"
    /\ <<"GREEKSMALL", "BOLD">> \in DOMAIN INTERVALS
    /\ Len(INTERVALS[<<"GREEKSMALL", "BOLD">>]) = 26
    /\ <<"GREEKSMALL", "CIRCLED">> \in DOMAIN INTERVALS
    /\ Meaning[<<120513>>] =
           [type |-> "OPERATOR", role |-> "PREFIXOP", font |-> "BOLD"]
    /\ Meaning[<<120538>>].role = "GREEKLETTER"
    /\ Meaning[<<8711>>].role = "PREFIXOP"
    /\ Meaning[<<8706>>].role = "PREFIXOP"
    /\ Meaning[<<983040 + 26>>] =
           [type |-> "OPERATOR", role |-> "PREFIXOP", font |-> "UNKNOWN"]

\* A step keeps every entry of Secondary.
SecondaryKept ==
    \A k \in DOMAIN Secondary :
        k \in DOMAIN Secondary' /\ Secondary'[k] = Secondary[k]

\* The secondary annotations registered so far are returned by
\* Secondary.get: those of the groups initMeaning has processed and, after
\* alphabets, ALLLETTERS for the glyphs of the lowercase Greek intervals,
\* the positions 0 and 26 made OPERATOR among them; a glyph of dashes and
\* of subtractions is OPERATOR / SUBTRACTION and has the secondary BAR.
SecondaryRegistered ==
    rpc \in {"initMeaning", "alphabets", "ready", "got"} =>
        /\ \A j \in 1..Len(symbolSetToSemantic_) :
              LET st == symbolSetToSemantic_[j]
              IN  ((rpc # "initMeaning" \/ j < gi)
                       /\ "secondary" \in DOMAIN st) =>
                      \A g \in GroupSets[j] :
                          secondaryMapGet(Secondary, g, st.secondary)
                              = st.secondary
        /\ rpc \in {"ready", "got"} =>
              /\ \A g \in GroupSets[12] \cap GroupSets[30] :
                    /\ Meaning[g].role = "SUBTRACTION"
                    /\ secondaryMapGet(Secondary, g, BAR) = BAR
              /\ \A j \in 1..Len(SemanticFontNames) :
                    LET an == alphabetName("GREEKSMALL", SemanticFontNames[j])
                    IN  an \in DOMAIN INTERVALS =>
                            \A g \in Range(INTERVALS[an]) :
                                secondaryMapGet(Secondary, g, ALLLETTERS)
                                    = ALLLETTERS

\* C24: during the initialization of the registry the secondary map only
\* grows: no step of initMeaning or alphabets removes or changes an entry,
\* so a secondary annotation a group registered for a glyph is returned
\* by Secondary.get(glyph, kind) also after a later group or an alphabet
\* override has replaced the glyph's meaning.
C24_SecondaryOnlyGrows ==
    /\ [][SecondaryKept]_vars
    /\ []SecondaryRegistered

\* The registry is initialized: the hyphen-minus, of dashes and of
\* subtractions, is a SUBTRACTION with the secondary BAR; bold nabla, at
\* position 0 of a lowercase Greek interval, is an OPERATOR with the
\* secondary ALLLETTERS.
C24_Witness ==
    /\ rpc = "ready"
    /\ <<45>> \in GroupSets[12] \cap GroupSets[30]
    /\ Meaning[<<45>>].role = "SUBTRACTION"
    /\ secondaryMapGet(Secondary, <<45>>, BAR) = BAR
    /\ <<"GREEKSMALL", "BOLD">> \in DOMAIN INTERVALS
    /\ Meaning[<<120513>>].type = "OPERATOR"
    /\ secondaryMapGet(Secondary, <<120513>>, ALLLETTERS) = ALLLETTERS

============================================================================
